---- MODULE Spec2Model ----
(***************************************************************************)
(* Chunk streaming, deterministic region generation and persistence of     *)
(* the infinite-islands game: ChunkManager (updateChunks, the deferred     *)
(* generation timer, generateChunk, load/unload, dispose) over the         *)
(* DataManager store.                                                      *)
(*                                                                         *)
(* Strings are sequences of character codes, so that key formatting,       *)
(* split/parseInt and the seed hash are computed the way the code does.    *)
(* Fractional numbers are fixed-point integers in units of 1/Scale.        *)
(***************************************************************************)
EXTENDS Integers, Sequences, FiniteSets, Bags, TLC

(* ------------------------------------------------------------------ *)
(* Program constants (constants.ts)                                    *)
(* ------------------------------------------------------------------ *)
CHUNK_SIZE == 100
VIEW_DISTANCE == 2
ISLANDS_PER_CHUNK_min == 3
ISLANDS_PER_CHUNK_max == 6
ISLAND_SIZE_RANGE_min == 5
ISLAND_SIZE_RANGE_max == 10
MAX_ADS_PER_CHUNK == 1
\* AD_SPAWN_CHANCE = 0.15, in hundredths
AD_SPAWN_CHANCE_pct == 15
STARTING_CHUNK_AD_BOOST == 2
STARTING_AREA_RADIUS == 2
\* AD_RANK_TIERS: sizeBoost in tenths
AD_RANK_TIERS ==
    << [rank |-> 10, sizeBoost10 |-> 17, name |-> "Premium Plus"],
       [rank |-> 8,  sizeBoost10 |-> 16, name |-> "Premium"],
       [rank |-> 6,  sizeBoost10 |-> 15, name |-> "Plus"],
       [rank |-> 4,  sizeBoost10 |-> 14, name |-> "Standard"],
       [rank |-> 2,  sizeBoost10 |-> 13, name |-> "Basic"] >>
BIOMES == << "Jungle", "Desert", "Snow", "Volcano" >>

\* ChunkManager fields fixed at construction
lowDetailDistance == VIEW_DISTANCE
highDetailDistance == 1
\* the tick count after which updateChunks asks for a cache prune
PRUNE_EVERY == 50
\* simpleHash reads at most this many leading characters
HASH_MAX_CHARS == 10

\* fixed-point unit of fractional numbers
Scale == 1000 * 100

(* ------------------------------------------------------------------ *)
(* Strings as sequences of character codes                             *)
(* ------------------------------------------------------------------ *)
\* the character codes of '_', '-' and '0'
Ch == [ underscore |-> 95, minus |-> 45, zero |-> 48 ]
\* the string literals of the program
Lit ==
    [ \* ".99" of (maxIslands + 0.99).toString()
      dot99 |-> << 46, 57, 57 >>,
      \* the salts `posX_`, `posZ_`, `size_`, `biome_`, `adRoll_`,
      \* `adTier_`, `adBiomeType_`, `adImage_` of generateChunk
      posX |-> << 112, 111, 115, 88, 95 >>,
      posZ |-> << 112, 111, 115, 90, 95 >>,
      size |-> << 115, 105, 122, 101, 95 >>,
      biome |-> << 98, 105, 111, 109, 101, 95 >>,
      adRoll |-> << 97, 100, 82, 111, 108, 108, 95 >>,
      adTier |-> << 97, 100, 84, 105, 101, 114, 95 >>,
      adBiomeType |-> << 97, 100, 66, 105, 111, 109, 101, 84, 121, 112,
                         101, 95 >>,
      adImage |-> << 97, 100, 73, 109, 97, 103, 101, 95 >>,
      \* the id prefixes `island_`, `ad_island_`, `placeholder_` and the
      \* infix `_rank`
      island |-> << 105, 115, 108, 97, 110, 100, 95 >>,
      ad_island |-> << 97, 100, 95, 105, 115, 108, 97, 110, 100, 95 >>,
      rank |-> << 95, 114, 97, 110, 107 >>,
      placeholder |-> << 112, 108, 97, 99, 101, 104, 111, 108, 100, 101,
                         114, 95 >>,
      \* String(undefined), the property key of acc[island.id] when island
      \* has no id
      undefined |-> << 117, 110, 100, 101, 102, 105, 110, 101, 100 >>,
      \* min.toString() and max.toString() of the calls random(min, max)
      \* of createProceduralIslandMesh: "0.8", "1", "1.2", "0.2", "0.4",
      \* "0.15", "0.3", "0.9", "1.1", "0.6"
      n0_8 |-> << 48, 46, 56 >>,
      n1 |-> << 49 >>,
      n1_2 |-> << 49, 46, 50 >>,
      n0_2 |-> << 48, 46, 50 >>,
      n0_4 |-> << 48, 46, 52 >>,
      n0_15 |-> << 48, 46, 49, 53 >>,
      n0_3 |-> << 48, 46, 51 >>,
      n0_9 |-> << 48, 46, 57 >>,
      n1_1 |-> << 49, 46, 49 >>,
      n0_6 |-> << 48, 46, 54 >> ]

RECURSIVE NatToStr(_)
\* Number.prototype.toString of a non-negative integer
NatToStr(n) ==
    IF n < 10 THEN << Ch.zero + n >>
    ELSE NatToStr(n \div 10) \o << Ch.zero + (n % 10) >>

\* `${n}` for an integer n
IntToStr(n) == IF n < 0 THEN << Ch.minus >> \o NatToStr(-n) ELSE NatToStr(n)

RECURSIVE ParseDigits(_, _, _)
\* value of the leading run of digits of s from index i on, acc so far
ParseDigits(s, i, acc) ==
    IF i > Len(s) \/ s[i] \notin Ch.zero .. Ch.zero + 9 THEN acc
    ELSE ParseDigits(s, i + 1, acc * 10 + (s[i] - Ch.zero))

\* parseInt(s) for a string that starts with an optional '-' and a digit
parseInt(s) ==
    IF Len(s) > 0 /\ s[1] = Ch.minus THEN 0 - ParseDigits(s, 2, 0)
    ELSE ParseDigits(s, 1, 0)

RECURSIVE SplitFrom(_, _, _, _)
\* s.split(sep) for a one-character separator
SplitFrom(s, sep, i, cur) ==
    IF i > Len(s) THEN << cur >>
    ELSE IF s[i] = sep THEN << cur >> \o SplitFrom(s, sep, i + 1, << >>)
    ELSE SplitFrom(s, sep, i + 1, Append(cur, s[i]))

split(s, sep) == SplitFrom(s, sep, 1, << >>)

\* s.startsWith(prefix)
startsWith(s, prefix) ==
    /\ Len(prefix) <= Len(s)
    /\ SubSeq(s, 1, Len(prefix)) = prefix

\* the chunk key `${chunkX}_${chunkZ}`
ChunkKeyOf(chunkX, chunkZ) ==
    IntToStr(chunkX) \o << Ch.underscore >> \o IntToStr(chunkZ)

(* ------------------------------------------------------------------ *)
(* Seeded random (ChunkManager.simpleHash and the two seed functions)  *)
(* ------------------------------------------------------------------ *)
Two16 == 256 * 256

\* one step of the loop: hash = ((hash << 5) - hash) + code; hash & hash,
\* on a signed 32-bit hash kept as hi * 2^16 + lo to stay inside the
\* model checker's integers
HashStep(h, c) ==
    LET lo == h % Two16
        hi == h \div Two16
        t == lo * 31 + c
        lo2 == t % Two16
        hi2 == (((hi * 31 + (t \div Two16)) + (Two16 \div 2)) % Two16)
                  - (Two16 \div 2)
    IN hi2 * Two16 + lo2

\* the value of a singleton set: what one statement has produced, computed
\* once before the next statement reads it
The(S) == CHOOSE x \in S : TRUE

\* The loops of the program are written as operators over a range of
\* iterations lo .. hi: one iteration when lo = hi, otherwise the iterations
\* lo .. mid followed, from the state they leave, by mid + 1 .. hi.
Mid(lo, hi) == (lo + hi) \div 2

RECURSIVE HashLoop(_, _, _, _)
\* iterations lo .. hi (1-based character positions) of the for loop
HashLoop(str, lo, hi, h) ==
    IF lo >= hi
    THEN IF lo > hi THEN h ELSE HashStep(h, str[lo])
    ELSE CHOOSE r \in { HashLoop(str, Mid(lo, hi) + 1, hi, h1) :
                          h1 \in { HashLoop(str, lo, Mid(lo, hi), h) } } : TRUE

\* the signed 32-bit hash before Math.abs
simpleHashSigned(str) ==
    LET n == IF Len(str) < HASH_MAX_CHARS THEN Len(str) ELSE HASH_MAX_CHARS
    IN HashLoop(str, 1, n, 0)

\* IslandGenerator.hashCode before Math.abs: the loop runs over the whole
\* string
hashCodeSigned(str) == HashLoop(str, 1, Len(str), 0)

\* simpleHash(str) % m, i.e. Math.abs(hash) % m; written on the signed
\* value because Math.abs(-2^31) = 2^31 is outside the 32-bit range
AbsMod(h, m) ==
    IF h >= 0 THEN h % m ELSE ((((0 - (h + 1)) % m) + 1) % m)

simpleHashMod(str, m) == AbsMod(simpleHashSigned(str), m)

\* a number argument of a seed function: its value (fixed point) and its
\* toString()
Num(n) == [v |-> n * Scale, str |-> IntToStr(n)]

\* getDetailedSeedRandom(key)(min, max, salt), fixed point
getDetailedSeedRandom(key, min, max, salt) ==
    LET combinedSeed == key \o salt \o min.str \o max.str
        k == simpleHashMod(combinedSeed, 1000)
    IN min.v + k * ((max.v - min.v) \div 1000)

\* getSimpleSeedRandom(key)(min, max, salt), fixed point
getSimpleSeedRandom(key, min, max, salt) ==
    LET k == simpleHashMod(key \o salt, 100)
    IN min.v + k * ((max.v - min.v) \div 100)

seedFunction(highDetail, key, min, max, salt) ==
    IF highDetail THEN getDetailedSeedRandom(key, min, max, salt)
    ELSE getSimpleSeedRandom(key, min, max, salt)

floor(x) == x \div Scale

Max(a, b) == IF a > b THEN a ELSE b
Min(a, b) == IF a < b THEN a ELSE b
Abs(a) == IF a < 0 THEN 0 - a ELSE a

(* ------------------------------------------------------------------ *)
(* generateChunk: the records of one region                            *)
(* ------------------------------------------------------------------ *)
NoValue == << >>
Some(v) == << v >>

\* islandCount of generateChunk
IslandCount(key, highDetail) ==
    LET minIslands == IF highDetail THEN ISLANDS_PER_CHUNK_min
                      ELSE Max(1, ISLANDS_PER_CHUNK_min - 1)
        maxIslands == IF highDetail THEN ISLANDS_PER_CHUNK_max
                      ELSE Max(2, ISLANDS_PER_CHUNK_max - 2)
        \* maxIslands + 0.99 and its toString()
        maxPlus99 == [ v |-> maxIslands * Scale + 99 * (Scale \div 100),
                       str |-> IntToStr(maxIslands) \o Lit.dot99 ]
    IN floor(seedFunction(highDetail, key, Num(minIslands), maxPlus99,
                          << >>))

isStartingArea(chunkX, chunkZ) ==
    chunkX * chunkX + chunkZ * chunkZ
        <= STARTING_AREA_RADIUS * STARTING_AREA_RADIUS

\* the seeded draws of iteration i of generateChunk's loop (si is `${i}`):
\* seedFunction(min, max, `posX_${i}`) and so on
IslandDraws(highDetail, key, si) ==
    [ posX |-> seedFunction(highDetail, key, Num(0), Num(CHUNK_SIZE),
                            Lit.posX \o si),
      posZ |-> seedFunction(highDetail, key, Num(0), Num(CHUNK_SIZE),
                            Lit.posZ \o si),
      size |-> seedFunction(highDetail, key, Num(ISLAND_SIZE_RANGE_min),
                            Num(ISLAND_SIZE_RANGE_max), Lit.size \o si),
      biome |-> seedFunction(highDetail, key, Num(0), Num(Len(BIOMES)),
                             Lit.biome \o si),
      adRoll |-> seedFunction(highDetail, key, Num(0), Num(1),
                              Lit.adRoll \o si),
      adTier |-> seedFunction(highDetail, key, Num(0),
                              Num(Len(AD_RANK_TIERS)), Lit.adTier \o si),
      adBiomeType |-> seedFunction(highDetail, key, Num(0), Num(1),
                                   Lit.adBiomeType \o si),
      adImage |-> seedFunction(highDetail, key, Num(0), Num(6),
                               Lit.adImage \o si) ]

\* the record generateChunk builds for island i from its draws d;
\* adIslandsCreated is the number of ad islands the loop has created before
\* i.  With MAX_ADS_PER_CHUNK = 1 the spacing loop over adIslandPositions
\* never runs with canBeAdIsland true, so canBeAdIsland is the count test
\* alone.
IslandFromDraws(d, key, si, chunkX, chunkZ, adIslandsCreated) ==
    LET posX == chunkX * CHUNK_SIZE * Scale + d.posX
        posZ == chunkZ * CHUNK_SIZE * Scale + d.posZ
        canBeAdIsland == adIslandsCreated < MAX_ADS_PER_CHUNK
        adChancePct == IF isStartingArea(chunkX, chunkZ)
                       THEN AD_SPAWN_CHANCE_pct * STARTING_CHUNK_AD_BOOST
                       ELSE AD_SPAWN_CHANCE_pct
        hasOutdoor == canBeAdIsland /\ d.adRoll * 100 < adChancePct * Scale
        adTierIndex == IF isStartingArea(chunkX, chunkZ)
                       THEN Min(Len(AD_RANK_TIERS) - 1,
                                floor((d.adTier * 7) \div 10 + Scale))
                       ELSE floor(d.adTier)
        adTier == AD_RANK_TIERS[adTierIndex + 1]
        adBiome == IF d.adBiomeType * 2 < Scale THEN "Desert" ELSE "Volcano"
        adIndex == 1 + Min(5, floor(d.adImage))
    IN IF hasOutdoor
       THEN [ id |-> Lit.ad_island \o key \o << Ch.underscore >> \o si
                       \o Lit.rank \o IntToStr(adTier.rank),
              pos |-> [x |-> posX, y |-> 0, z |-> posZ],
              biome |-> adBiome,
              size |-> (d.size * adTier.sizeBoost10) \div 10,
              name |-> NoValue,
              chunk |-> key,
              outdoor |-> Some([ image |-> "https://picsum.photos/seed/"
                                            \o ToString(adIndex) \o "/300/200",
                                 url |-> "https://example.com/ad/"
                                            \o ToString(adIndex) \o "_tier_"
                                            \o adTier.name,
                                 active |-> TRUE,
                                 adRank |-> adTier.rank,
                                 billboard |-> NoValue ]),
              mesh |-> FALSE ]
       ELSE [ id |-> Lit.island \o key \o << Ch.underscore >> \o si,
              pos |-> [x |-> posX, y |-> 0, z |-> posZ],
              biome |-> BIOMES[floor(d.biome) + 1],
              size |-> d.size,
              name |-> NoValue,
              chunk |-> key,
              outdoor |-> NoValue,
              mesh |-> FALSE ]

\* the record of island i of chunk key = `${chunkX}_${chunkZ}`
IslandRecordOf(key, si, chunkX, chunkZ, highDetail, adIslandsCreated) ==
    IslandFromDraws(IslandDraws(highDetail, key, si), key, si,
                    chunkX, chunkZ, adIslandsCreated)

\* an island record whose position takes chunkZ for x and chunkX for z
IslandRecord_swapped(chunkX, chunkZ, highDetail, i, adIslandsCreated) ==
    IslandRecordOf(ChunkKeyOf(chunkX, chunkZ), IntToStr(i),
                   chunkZ, chunkX, highDetail, adIslandsCreated)

IslandRecord(chunkX, chunkZ, highDetail, i, adIslandsCreated) ==
    IslandRecordOf(ChunkKeyOf(chunkX, chunkZ), IntToStr(i),
                   chunkX, chunkZ, highDetail, adIslandsCreated)

\* iteration i, from the loop state acc (the records stored so far and
\* adIslandsCreated): the record is stored, adIslandsCreated++ if it is an ad
\* island
IslandStep(acc, r) ==
    [ recs |-> Append(acc.recs, r),
      ads |-> IF r.outdoor # NoValue THEN acc.ads + 1 ELSE acc.ads ]

RECURSIVE IslandLoop(_, _, _, _, _, _)
\* iterations lo .. hi of the for loop of generateChunk
IslandLoop(acc, chunkX, chunkZ, highDetail, lo, hi) ==
    IF lo >= hi
    THEN IF lo > hi THEN acc
         ELSE IslandStep(acc, IslandRecord(chunkX, chunkZ, highDetail, lo,
                                           acc.ads))
    ELSE CHOOSE r \in { IslandLoop(a1, chunkX, chunkZ, highDetail,
                                   Mid(lo, hi) + 1, hi) :
                          a1 \in { IslandLoop(acc, chunkX, chunkZ, highDetail,
                                              lo, Mid(lo, hi)) } } : TRUE

\* all the records generateChunk(chunkX, chunkZ, highDetail) stores
ChunkRecords(chunkX, chunkZ, highDetail) ==
    IslandLoop([ recs |-> << >>, ads |-> 0 ], chunkX, chunkZ, highDetail, 0,
               IslandCount(ChunkKeyOf(chunkX, chunkZ), highDetail) - 1).recs


\* the set of elements of a sequence
Range(seq) == { seq[i] : i \in DOMAIN seq }

(* ------------------------------------------------------------------ *)
(* State                                                               *)
(* ------------------------------------------------------------------ *)
VARIABLES
    loadedChunks,        \* ChunkManager.loadedChunks: set of chunk keys
    pendingChunks,       \* ChunkManager.pendingChunks: array of chunk keys
    isGeneratingChunk,   \* ChunkManager.isGeneratingChunk
    lowPolyIslands,      \* ChunkManager.lowPolyIslands: the placeholder ids
    chunkUpdateCounter,  \* ChunkManager.chunkUpdateCounter
    islandData,          \* DataManager.islandData: id -> record
    generatedChunks,     \* DataManager.generatedChunks
    scene,               \* THREE.Scene children: a bag of object tags
    storage,             \* localStorage: the two persisted collections
    timers,              \* setTimeout callbacks not yet run
    playerChunk,         \* chunk of the position given to the last tick
    disposed,            \* Game.dispose() has run (animation loop cancelled)
    tickCount,           \* number of updateChunks calls so far
    faultCount,          \* number of exceptions raised so far
    thrownAt,            \* history: where the last exception was raised
    fnArgs,              \* the arguments of the last call of a pure function
    fnResult,            \* what that call returned
    appendLog,           \* history: keys in the order they were queued
    genLog,              \* history: keys in the order their callback ran
    generator            \* IslandGenerator: caches, groups, pending fetches

vars == << loadedChunks, pendingChunks, isGeneratingChunk, lowPolyIslands,
           chunkUpdateCounter, islandData, generatedChunks, scene, storage,
           timers, playerChunk, disposed, tickCount, faultCount, thrownAt,
           fnArgs, fnResult, appendLog, genLog, generator >>

\* the mutable program state handed through the steps of one handler
Cur ==
    [ loadedChunks |-> loadedChunks, pendingChunks |-> pendingChunks,
      isGeneratingChunk |-> isGeneratingChunk,
      lowPolyIslands |-> lowPolyIslands,
      chunkUpdateCounter |-> chunkUpdateCounter, islandData |-> islandData,
      generatedChunks |-> generatedChunks, scene |-> scene,
      storage |-> storage, timers |-> timers, appendLog |-> appendLog,
      genLog |-> genLog ]

Install(s) ==
    /\ loadedChunks' = s.loadedChunks
    /\ pendingChunks' = s.pendingChunks
    /\ isGeneratingChunk' = s.isGeneratingChunk
    /\ lowPolyIslands' = s.lowPolyIslands
    /\ chunkUpdateCounter' = s.chunkUpdateCounter
    /\ islandData' = s.islandData
    /\ generatedChunks' = s.generatedChunks
    /\ scene' = s.scene
    /\ storage' = s.storage
    /\ timers' = s.timers
    /\ appendLog' = s.appendLog
    /\ genLog' = s.genLog

(* ------------------------------------------------------------------ *)
(* Scene objects                                                       *)
(* ------------------------------------------------------------------ *)
IslandObj(id) == << "island", id >>
PlaceholderObj(pid) == << "placeholder", pid >>

\* scene.add of one object per element of objs
SceneAdd(sc, objs) == sc (+) [ o \in objs |-> 1 ]
\* scene.remove of one object per element of objs
SceneRemove(sc, objs) == sc (-) [ o \in objs |-> 1 ]

(* ------------------------------------------------------------------ *)
(* DataManager                                                         *)
(* ------------------------------------------------------------------ *)
\* JSON.stringify of island.outdoor, property by property.  Under
\* outdoor.billboard no property stays no property, a THREE.Mesh is written
\* as what its toJSON returns, and an object that was parsed from storage
\* is written as it was read
StringifyOutdoor(o) ==
    IF o = NoValue THEN NoValue
    ELSE Some([ o[1] EXCEPT
                  !.billboard = IF @ = Some("THREE.Mesh")
                                THEN Some("Object3D.toJSON") ELSE @ ])

\* the fields of a record that describe the island: no mesh, no label, no
\* billboard
SemanticFields(island) ==
    [ id |-> island.id, pos |-> island.pos, biome |-> island.biome,
      size |-> island.size, name |-> island.name, chunk |-> island.chunk,
      outdoor |-> IF island.outdoor = NoValue THEN NoValue
                  ELSE Some([ island.outdoor[1] EXCEPT
                                !.billboard = NoValue ]) ]

\* const { mesh, label, ...rest } = island, as JSON.stringify writes rest:
\* mesh and label are left out, outdoor is written with all its properties
Serializable(island) ==
    [ id |-> island.id, pos |-> island.pos, biome |-> island.biome,
      size |-> island.size, name |-> island.name, chunk |-> island.chunk,
      outdoor |-> StringifyOutdoor(island.outdoor) ]

\* a saveData that writes the islands and not the generated chunks
saveData_onlyIslands(s) ==
    [ s EXCEPT !.storage =
        [ islandData |-> Some({ Serializable(s.islandData[id]) :
                                  id \in DOMAIN s.islandData }),
          generatedChunks |-> s.storage.generatedChunks ] ]

\* DataManager.saveData
saveData(s) ==
    [ s EXCEPT !.storage =
        [ islandData |-> Some({ Serializable(s.islandData[id]) :
                                  id \in DOMAIN s.islandData }),
          generatedChunks |-> Some(s.generatedChunks) ] ]

\* a parsed record as an in-memory record: no mesh yet
Revive(r) ==
    [ id |-> r.id, pos |-> r.pos, biome |-> r.biome, size |-> r.size,
      name |-> r.name, chunk |-> r.chunk, outdoor |-> r.outdoor,
      mesh |-> FALSE ]

\* DataManager.loadData on well-formed storage: the island map keyed by id
LoadedIslandData(st) ==
    IF st.islandData = NoValue THEN << >>
    ELSE LET recs == st.islandData[1]
         IN [ id \in { r.id : r \in recs } |->
                Revive(CHOOSE r \in recs : r.id = id) ]

LoadedGeneratedChunks(st) ==
    IF st.generatedChunks = NoValue THEN { } ELSE st.generatedChunks[1]

\* what JSON.parse makes of the text of a localStorage item: a SyntaxError,
\* or the value the text denotes
NotJSON == [ json |-> "SyntaxError" ]
JNull == [ json |-> "null" ]
JNumber == [ json |-> "number" ]
JString(chars) == [ json |-> "string", chars |-> chars ]
JObject(fields) == [ json |-> "object", fields |-> fields ]
JArray(elems) == [ json |-> "array", elems |-> elems ]

\* island.id as the key of acc[island.id]
KeyOfElement(e) ==
    IF e.json = "object" /\ "id" \in DOMAIN e.fields
    THEN e.fields.id ELSE Lit.undefined

\* the parsed element as the value of acc[island.id]: an object with the
\* fields of a record is that record, without a mesh
ValueOfElement(e) ==
    IF e.json = "object" /\ DOMAIN e.fields = DOMAIN Serializable(
           [ id |-> 0, pos |-> 0, biome |-> 0, size |-> 0, name |-> 0,
             chunk |-> 0, outdoor |-> NoValue ])
    THEN Revive(e.fields) ELSE e

\* the body of the first try block of loadData on the island item:
\* JSON.parse, then parsedData.reduce; throws is TRUE where the block ends
\* in an exception, before this.islandData is assigned
TryLoadIslands(item) ==
    IF item = NoValue
    THEN [ throws |-> FALSE, islandData |-> << >> ]
    ELSE LET v == item[1]
         IN IF v.json # "array"
            THEN [ throws |-> TRUE ]
            ELSE IF \E i \in DOMAIN v.elems : v.elems[i].json = "null"
                 THEN [ throws |-> TRUE ]
                 ELSE [ throws |-> FALSE,
                        islandData |->
                          [ k \in { KeyOfElement(v.elems[i]) :
                                      i \in DOMAIN v.elems } |->
                              LET last == CHOOSE i \in DOMAIN v.elems :
                                    /\ KeyOfElement(v.elems[i]) = k
                                    /\ \A j \in DOMAIN v.elems :
                                         KeyOfElement(v.elems[j]) = k
                                             => j <= i
                              IN ValueOfElement(v.elems[last]) ] ]

\* the body of the second try block of loadData on the chunk item:
\* new Set(JSON.parse(storedChunks)); new Set takes null and every
\* iterable, a string included, and throws on the rest
TryLoadChunks(item) ==
    IF item = NoValue
    THEN [ throws |-> FALSE, generatedChunks |-> { } ]
    ELSE LET v == item[1]
         IN CASE v.json = "null" ->
                   [ throws |-> FALSE, generatedChunks |-> { } ]
              [] v.json = "string" ->
                   [ throws |-> FALSE,
                     generatedChunks |-> { << c >> : c \in Range(v.chars) } ]
              [] v.json = "array" ->
                   [ throws |-> FALSE,
                     generatedChunks |->
                       { IF e.json = "string" THEN e.chars ELSE e :
                           e \in Range(v.elems) } ]
              [] OTHER -> [ throws |-> TRUE ]

\* DataManager.loadData on a new DataManager: each try block has its own
\* catch, which resets the collection of the block
loadData(islandItem, chunkItem) ==
    LET islands == TryLoadIslands(islandItem)
        chunks == TryLoadChunks(chunkItem)
    IN [ threw |-> FALSE,
         islandData |-> IF islands.throws THEN << >>
                        ELSE islands.islandData,
         generatedChunks |-> IF chunks.throws THEN { }
                             ELSE chunks.generatedChunks ]

(* ------------------------------------------------------------------ *)
(* ChunkManager helpers                                                *)
(* ------------------------------------------------------------------ *)
IslandsOfChunk(s, key) ==
    { id \in DOMAIN s.islandData : s.islandData[id].chunk = key }

\* IslandGenerator.getBiomeById finds the biome
KnownBiome(name) == name \in Range(BIOMES)

\* IslandGenerator.addOutdoorToIsland: the billboard mesh is stored under
\* islandData.outdoor.billboard
addOutdoorToIsland(o) ==
    Some([ o[1] EXCEPT !.billboard = Some("THREE.Mesh") ])

\* IslandGenerator.addIslandMesh on the record of a known biome: the group
\* is stored under mesh, and an active outdoor gets its billboard
WithMesh(island) ==
    [ island EXCEPT
        !.mesh = TRUE,
        !.outdoor = IF island.outdoor # NoValue /\ island.outdoor[1].active
                    THEN addOutdoorToIsland(island.outdoor)
                    ELSE island.outdoor ]

\* island.mesh set (has = TRUE) for the ids, or deleted (has = FALSE) as
\* IslandGenerator.removeIslandMesh does with delete islandData.mesh
SetMesh(data, ids, has) ==
    [ id \in DOMAIN data |->
        IF id \in ids
        THEN IF has THEN WithMesh(data[id])
             ELSE [ data[id] EXCEPT !.mesh = FALSE ]
        ELSE data[id] ]

\* an addIslandMesh that builds a mesh whatever the biome name
addIslandMeshes_anyBiome(s, ids) ==
    [ s EXCEPT
        !.islandData = SetMesh(s.islandData, ids, TRUE),
        !.scene = SceneAdd(s.scene, { IslandObj(id) : id \in ids }) ]

\* ChunkManager.addIslandMesh for every island of ids: a group is added to
\* the scene and stored in island.mesh, unless the biome is unknown
addIslandMeshes(s, ids) ==
    LET ok == { id \in ids : KnownBiome(s.islandData[id].biome) }
    IN [ s EXCEPT
           !.islandData = SetMesh(s.islandData, ok, TRUE),
           !.scene = SceneAdd(s.scene, { IslandObj(id) : id \in ok }) ]

\* ChunkManager.removeIslandMesh for every island of ids
removeIslandMeshes(s, ids) ==
    LET has == { id \in ids : s.islandData[id].mesh }
    IN [ s EXCEPT
           !.islandData = SetMesh(s.islandData, has, FALSE),
           !.scene = SceneRemove(s.scene, { IslandObj(id) : id \in has }) ]

\* ChunkManager.loadChunk
loadChunk(s, key) ==
    IF key \in s.loadedChunks THEN s
    ELSE addIslandMeshes([ s EXCEPT !.loadedChunks = @ \cup { key } ],
                         IslandsOfChunk(s, key))

\* ChunkManager.unloadChunk for every key of keys; the calls for different
\* keys touch different islands, so their order is immaterial
unloadChunks(s, keys) ==
    LET loaded == keys \cap s.loadedChunks
    IN removeIslandMeshes([ s EXCEPT !.loadedChunks = @ \ loaded ],
                          UNION { IslandsOfChunk(s, key) : key \in loaded })

\* ChunkManager.unloadChunk
unloadChunk(s, key) == unloadChunks(s, { key })

(* ------------------------------------------------------------------ *)
(* IslandGenerator                                                     *)
(*                                                                     *)
(* ChunkManager and DataManager never read the generator's caches, so  *)
(* the streaming specifications leave the generator as constructed;    *)
(* SpecGen follows it through loadChunk, unloadChunk, the texture      *)
(* callbacks and Game.dispose, SpecPrune through the frames of a ship   *)
(* that stays where it is.  A geometry or texture object is a handle,  *)
(* the index of its description in content.                            *)
(* ------------------------------------------------------------------ *)
\* the ceilings of clearUnusedCaches
GEOMETRY_CACHE_MAX == 50
BILLBOARD_CACHE_MAX == 20
TEXTURE_CACHE_MAX == 30

\* new IslandGenerator(scene)
NewGenerator ==
    [ geometryCache |-> << >>,           \* cacheKey -> geometry
      billboardGeometryCache |-> << >>,  \* key -> plane geometry
      textureCache |-> << >>,            \* image url -> texture
      content |-> << >>,                 \* what each object made so far holds
      groups |-> << >>,                  \* island id -> island.mesh
      disposed |-> { },                  \* objects dispose() was called on
      loads |-> { },                     \* TextureLoader.load calls in flight
      fetched |-> 0,                     \* number of load calls so far
      pruneRequested |-> FALSE,          \* history: clearUnusedCaches was
                                         \* called in the last frame
      lastFault |-> [ id |-> NoValue, kind |-> "none" ],
                                         \* history: what went wrong in the
                                         \* last loadChunk, and for which id
      thrown |-> FALSE ]                 \* an exception is propagating

\* map.set(k, v)
Put(f, k, v) == [ x \in DOMAIN f \cup { k } |-> IF x = k THEN v ELSE f[x] ]
\* map.delete(k) for every k of ks
Drop(f, ks) == [ x \in DOMAIN f \ ks |-> f[x] ]
\* the values of a map
Values(f) == { f[x] : x \in DOMAIN f }

\* a new object holding c; its handle is Len(g.content) + 1
Alloc(g, c) == [ g EXCEPT !.content = Append(@, c) ]
Newest(g) == Len(g.content)

\* Math.round of num / den, for num >= 0 and den > 0
Round(num, den) == (2 * num + den) \div (2 * den)

\* the switch on biome.name of createProceduralIslandMesh
ShapeType(biomeName) ==
    CASE biomeName \in { "Forest", "Jungle" } -> 1
      [] biomeName = "Desert" -> 2
      [] biomeName = "Volcano" -> 3
      [] biomeName = "Snow" -> 0
      [] biomeName = "Swamp" -> 4
      [] OTHER -> 1

\* cacheKey = `${biome.name}_${shapeType}_${sizeGroup}`, as its three parts
CacheKey(island) ==
    << island.biome, ShapeType(island.biome), Round(island.size, Scale) >>

\* radial segments each constructor passes to its base primitive, for the
\* size (an integer, the size group) it is called with
RadialSegments(shapeType, size) ==
    CASE shapeType = 0 -> Min(8, Max(6, size))
      [] shapeType = 1 -> Min(8, Max(6, size))
      [] shapeType = 2 -> Max(6, size)
      [] shapeType = 3 -> Max(8, (size * 12) \div 10)
      [] shapeType = 4 -> Max(8, size)
      [] OTHER -> 6

\* height segments each constructor passes to its base primitive
HeightSegments(shapeType, size) ==
    CASE shapeType = 0 -> Min(3, Max(2, size \div 4))
      [] shapeType = 1 -> Max(4, size \div 3)
      [] shapeType = 2 -> 1
      [] shapeType = 3 -> Min(4, Max(2, (size * 2) \div 5))
      [] shapeType = 4 -> Max(2, size \div 4)
      [] OTHER -> 1

\* the seeded random of createProceduralIslandMesh: hash % 1000 of
\* seed + min.toString() + max.toString(); the value returned is
\* min + (hash % 1000) / 1000 * (max - min)
SeededRandom(seed, minStr, maxStr) ==
    AbsMod(hashCodeSigned(seed \o minStr \o maxStr), 1000)

\* the values random returns to the constructor of a shape, one for each
\* pair (min, max) it calls random with
Draws(shapeType, seed) ==
    CASE shapeType = 0 -> << SeededRandom(seed, Lit.n0_8, Lit.n1),
                             SeededRandom(seed, Lit.n0_8, Lit.n1_2) >>
      [] shapeType = 3 -> << SeededRandom(seed, Lit.n0_8, Lit.n1_2),
                             SeededRandom(seed, Lit.n0_2, Lit.n0_4),
                             SeededRandom(seed, Lit.n0_15, Lit.n0_3),
                             SeededRandom(seed, Lit.n0_9, Lit.n1_1) >>
      [] shapeType = 4 -> << SeededRandom(seed, Lit.n0_6, Lit.n0_8),
                             SeededRandom(seed, Lit.n0_8, Lit.n1_2),
                             SeededRandom(seed, Lit.n0_9, Lit.n1_1) >>
      [] OTHER -> << >>

\* the geometry createJaggedMountain .. createArchipelago build for a size
\* group with the random seeded by seed
TerrainGeometry(shapeType, size, seed) ==
    [ kind |-> "terrain", shapeType |-> shapeType, size |-> size,
      segments |-> RadialSegments(shapeType, size),
      heightSegments |-> HeightSegments(shapeType, size),
      draws |-> Draws(shapeType, seed) ]

\* a createProceduralIslandMesh that hands out the cached geometry itself
\* on a hit
createProceduralIslandMesh_shared(g, island) ==
    LET key == CacheKey(island)
    IN IF key \in DOMAIN g.geometryCache
       THEN [ g |-> g, geometry |-> g.geometryCache[key] ]
       ELSE LET g1 == Alloc(g, TerrainGeometry(key[2], key[3], island.id))
                g2 == Alloc(g1, g1.content[Newest(g1)])
            IN [ g |-> [ g2 EXCEPT !.geometryCache =
                                      Put(@, key, Newest(g2)) ],
                 geometry |-> Newest(g1) ]

\* IslandGenerator.createProceduralIslandMesh: the generator after the call
\* and the geometry of the mesh it returns.  On a hit the mesh gets a clone
\* of the cached geometry; on a miss it gets the geometry built with this
\* island's seed, and a clone of that is cached
createProceduralIslandMesh(g, island) ==
    LET key == CacheKey(island)
    IN IF key \in DOMAIN g.geometryCache
       THEN LET g1 == Alloc(g, g.content[g.geometryCache[key]])
            IN [ g |-> g1, geometry |-> Newest(g1) ]
       ELSE LET g1 == Alloc(g, TerrainGeometry(key[2], key[3], island.id))
                g2 == Alloc(g1, g1.content[Newest(g1)])
            IN [ g |-> [ g2 EXCEPT !.geometryCache =
                                      Put(@, key, Newest(g2)) ],
                 geometry |-> Newest(g1) ]

\* the key of getBillboardGeometry for the billboard of an ad island:
\* twice the width and height rounded to 0.5, where
\* width = size * 1.2 * (1 + adRank / 20) and
\* height = size * 0.8 * (1 + adRank / 20)
BillboardKey(island) ==
    LET adRank == island.outdoor[1].adRank
    IN << Round(island.size * (20 + adRank) * 3, 25 * Scale),
          Round(island.size * (20 + adRank) * 2, 25 * Scale) >>

\* IslandGenerator.getBillboardGeometry: the cache entry itself is returned
getBillboardGeometry(g, key) ==
    IF key \in DOMAIN g.billboardGeometryCache
    THEN [ g |-> g, geometry |-> g.billboardGeometryCache[key] ]
    ELSE LET g1 == Alloc(g, [ kind |-> "plane", key |-> key ])
         IN [ g |-> [ g1 EXCEPT !.billboardGeometryCache =
                                   Put(@, key, Newest(g1)) ],
              geometry |-> Newest(g1) ]

\* IslandGenerator.loadTextureForBillboard: a cached texture is applied at
\* once, otherwise a fetch is started whose callback will cache the texture
loadTextureForBillboard(g, island) ==
    LET imageUrl == island.outdoor[1].image
    IN IF imageUrl \in DOMAIN g.textureCache
       THEN g
       ELSE [ g EXCEPT
                !.loads = @ \cup { [ url |-> imageUrl, id |-> island.id,
                                     n |-> g.fetched + 1 ] },
                !.fetched = @ + 1 ]

\* the onLoad callback of a fetch: textureCache.set(imageUrl, texture)
TextureLoaded(g, load) ==
    LET g1 == Alloc(g, [ kind |-> "texture", url |-> load.url ])
    IN [ g1 EXCEPT !.textureCache = Put(@, load.url, Newest(g1)),
                   !.loads = @ \ { load } ]

\* IslandGenerator.addOutdoorToIsland: the generator after the call and
\* the geometry of the billboard added to the group
IG_addOutdoorToIsland(g, island) ==
    LET b == getBillboardGeometry(g, BillboardKey(island))
    IN [ g |-> loadTextureForBillboard(b.g, island),
         billboard |-> Some(b.geometry) ]

\* the part of addIslandMesh inside try, for a terrain geometry that is
\* valid or not: an invalid one is replaced by the fallback cone
BuildGroup(g, island, valid) ==
    LET m == createProceduralIslandMesh(g, island)
        t == IF valid THEN m
             ELSE LET g1 == Alloc(m.g, [ kind |-> "fallback",
                                         size |-> island.size ])
                  IN [ g |-> g1, geometry |-> Newest(g1) ]
        o == IF island.outdoor # NoValue /\ island.outdoor[1].active
             THEN IG_addOutdoorToIsland(t.g, island)
             ELSE [ g |-> t.g, billboard |-> NoValue ]
    IN [ o.g EXCEPT !.groups = Put(@, island.id,
                                   [ terrain |-> t.geometry,
                                     billboard |-> o.billboard ]) ]

\* an addIslandMesh without the try: the exception leaves the method
IG_addIslandMesh_noCatch(g, island, fault) ==
    IF ~KnownBiome(island.biome) THEN g
    ELSE IF fault = "throws" THEN [ g EXCEPT !.thrown = TRUE ]
    ELSE BuildGroup(g, island, fault # "invalid")

\* IslandGenerator.addIslandMesh.  fault is what happens while the mesh is
\* built: "none", "invalid" (validateMeshGeometry returns false) or
\* "throws" (createProceduralIslandMesh throws); the catch logs the
\* exception and the method returns
IG_addIslandMesh(g, island, fault) ==
    IF ~KnownBiome(island.biome) THEN g
    ELSE IF fault = "throws" THEN g
    ELSE BuildGroup(g, island, fault # "invalid")

\* IslandGenerator.removeIslandMesh: the group leaves the scene and the
\* geometry of every mesh in it is disposed, the billboard's included
IG_removeIslandMesh(g, id) ==
    IF id \notin DOMAIN g.groups THEN g
    ELSE LET grp == g.groups[id]
         IN [ g EXCEPT
                !.disposed = @ \cup { grp.terrain }
                               \cup (IF grp.billboard = NoValue THEN { }
                                     ELSE { grp.billboard[1] }),
                !.groups = Drop(@, { id }) ]

\* a clearUnusedCaches that never clears the billboard geometries
IG_clearUnusedCaches_keepsBillboards(g, usedIslandIds, keep) ==
    LET overG == Cardinality(DOMAIN g.geometryCache) > GEOMETRY_CACHE_MAX
    IN [ g EXCEPT
           !.disposed = @ \cup (IF overG THEN Values(g.geometryCache)
                                ELSE { }),
           !.geometryCache = IF overG THEN << >> ELSE @ ]

\* IslandGenerator.clearUnusedCaches(usedIslandIds), which does not read its
\* parameter; keep is the set of image urls for which Math.random() < 0.3
IG_clearUnusedCaches(g, usedIslandIds, keep) ==
    LET overG == Cardinality(DOMAIN g.geometryCache) > GEOMETRY_CACHE_MAX
        overB == Cardinality(DOMAIN g.billboardGeometryCache)
                     > BILLBOARD_CACHE_MAX
        overT == Cardinality(DOMAIN g.textureCache) > TEXTURE_CACHE_MAX
        gone == DOMAIN g.textureCache \ keep
    IN [ g EXCEPT
           !.disposed = @ \cup (IF overG THEN Values(g.geometryCache)
                                ELSE { })
                          \cup (IF overB
                                THEN Values(g.billboardGeometryCache)
                                ELSE { })
                          \cup (IF overT
                                THEN { g.textureCache[u] : u \in gone }
                                ELSE { }),
           !.geometryCache = IF overG THEN << >> ELSE @,
           !.billboardGeometryCache = IF overB THEN << >> ELSE @,
           !.textureCache = IF overT THEN Drop(@, gone) ELSE @,
           !.pruneRequested = TRUE ]

\* IslandGenerator.dispose
IG_dispose(g) ==
    [ g EXCEPT
        !.disposed = @ \cup Values(g.textureCache)
                       \cup Values(g.geometryCache)
                       \cup Values(g.billboardGeometryCache),
        !.textureCache = << >>,
        !.geometryCache = << >>,
        !.billboardGeometryCache = << >> ]

RECURSIVE AddLoop(_, _, _, _)
\* the forEach of loadChunk over the records recs of the chunk, from
\* index i on; fault.at is the index of the record whose build goes wrong.
\* An exception that leaves addIslandMesh ends the loop
AddLoop(g, recs, i, fault) ==
    IF i > Len(recs) \/ g.thrown THEN g
    ELSE AddLoop(IG_addIslandMesh(g, recs[i],
                                  IF fault.at = i THEN fault.kind
                                  ELSE "none"),
                 recs, i + 1, fault)

RECURSIVE RemoveLoop(_, _, _)
\* the forEach of unloadChunk over the records recs of the chunk
RemoveLoop(g, recs, i) ==
    IF i > Len(recs) THEN g
    ELSE RemoveLoop(IG_removeIslandMesh(g, recs[i].id), recs, i + 1)

\* placeholder id `placeholder_${chunkKey}_${i}`
PlaceholderId(chunkKey, i) ==
    Lit.placeholder \o chunkKey \o << Ch.underscore >> \o IntToStr(i)

\* ChunkManager.createPlaceholdersForChunk, islandCount being the value
\* drawn with Math.random (1 or 2)
createPlaceholdersForChunk(s, chunkKey, islandCount) ==
    LET fresh == { PlaceholderId(chunkKey, i) : i \in 0 .. islandCount - 1 }
                     \ s.lowPolyIslands
    IN [ s EXCEPT
           !.scene = SceneAdd(@, { PlaceholderObj(p) : p \in fresh }),
           !.lowPolyIslands = @ \cup fresh ]

\* ChunkManager.removePlaceholdersForChunk
removePlaceholdersForChunk(s, chunkKey) ==
    LET gone == { p \in s.lowPolyIslands :
                    startsWith(p, Lit.placeholder \o chunkKey) }
    IN [ s EXCEPT
           !.scene = SceneRemove(@, { PlaceholderObj(p) : p \in gone }),
           !.lowPolyIslands = @ \ gone ]

\* this.dataManager.islandData[r.id] = r for the records of recs, in order:
\* under each id the last record stored stays
StoreAll(data, recs) ==
    LET ids == { recs[i].id : i \in DOMAIN recs }
    IN [ id \in DOMAIN data \cup ids |->
           IF id \in ids
           THEN recs[CHOOSE i \in DOMAIN recs :
                       /\ recs[i].id = id
                       /\ \A j \in DOMAIN recs : recs[j].id = id => j <= i]
           ELSE data[id] ]

\* if (Math.random() < 0.2) this.dataManager.saveData()
saveSometimes(s, doSave) == IF doSave THEN saveData(s) ELSE s

\* a generateChunk without the test of line 226: it generates again what is
\* generated already
generateChunk_noGuard(s, chunkX, chunkZ, highDetail, doSave) ==
    saveSometimes(
        removePlaceholdersForChunk(
            [ s EXCEPT
                !.islandData = StoreAll(@, ChunkRecords(chunkX, chunkZ,
                                                        highDetail)),
                !.generatedChunks = @ \cup { ChunkKeyOf(chunkX, chunkZ) } ],
            ChunkKeyOf(chunkX, chunkZ)),
        doSave)

\* a generateChunk that leaves the placeholders of the chunk in place
generateChunk_keepsPlaceholders(s, chunkX, chunkZ, highDetail, doSave) ==
    IF ChunkKeyOf(chunkX, chunkZ) \in s.generatedChunks THEN s
    ELSE saveSometimes(
             [ s EXCEPT
                 !.islandData = StoreAll(@, ChunkRecords(chunkX, chunkZ,
                                                         highDetail)),
                 !.generatedChunks = @ \cup { ChunkKeyOf(chunkX, chunkZ) } ],
             doSave)

\* ChunkManager.generateChunk; doSave is the outcome of Math.random() < 0.2
generateChunk(s, chunkX, chunkZ, highDetail, doSave) ==
    LET key == ChunkKeyOf(chunkX, chunkZ)
    IN IF key \in s.generatedChunks THEN s
       ELSE saveSometimes(
                removePlaceholdersForChunk(
                    [ s EXCEPT
                        !.islandData =
                            StoreAll(@, ChunkRecords(chunkX, chunkZ,
                                                     highDetail)),
                        !.generatedChunks = @ \cup { key } ],
                    key),
                doSave)

(* ------------------------------------------------------------------ *)
(* ChunkManager.updateChunks                                           *)
(* ------------------------------------------------------------------ *)
\* the offsets (dx, dz) of the two nested for loops over -d .. d, in order
Offsets(d) ==
    LET n == 2 * d + 1
    IN [ i \in 1 .. n * n |-> << ((i - 1) \div n) - d, ((i - 1) % n) - d >> ]

InHighSquare(o) ==
    Abs(o[1]) <= highDetailDistance /\ Abs(o[2]) <= highDetailDistance

HighOffsets == Offsets(highDetailDistance)
\* the low-detail loop skips the offsets of the high-detail square
LowRingOffsets ==
    SelectSeq(Offsets(lowDetailDistance), LAMBDA o : ~InHighSquare(o))

\* chunk coordinates visited by the high-detail loop, in order
HighCoords(cx, cz) ==
    [ i \in DOMAIN HighOffsets |->
        << cx + HighOffsets[i][1], cz + HighOffsets[i][2] >> ]

\* chunk coordinates visited by the low-detail loop (those it does not
\* skip), in order
LowRingCoords(cx, cz) ==
    [ i \in DOMAIN LowRingOffsets |->
        << cx + LowRingOffsets[i][1], cz + LowRingOffsets[i][2] >> ]

KeysOf(coords) == { ChunkKeyOf(c[1], c[2]) : c \in Range(coords) }

\* highDetailChunks and lowDetailChunks of a tick at chunk (cx, cz)
HighSet(cx, cz) == KeysOf(HighCoords(cx, cz))
LowSet(cx, cz) == HighSet(cx, cz) \cup KeysOf(LowRingCoords(cx, cz))

\* pendingChunks.includes(key)
includes(seq, key) == \E i \in DOMAIN seq : seq[i] = key

\* an enqueue test that does not look into the queue
QueueIfNeeded_noIncludes(s, key) ==
    IF key \notin s.generatedChunks
    THEN [ s EXCEPT !.pendingChunks = Append(@, key),
                    !.appendLog = Append(@, key) ]
    ELSE s

\* if (!generatedChunks.has(key) && !pendingChunks.includes(key)) push(key)
QueueIfNeeded(s, key) ==
    IF key \notin s.generatedChunks /\ ~includes(s.pendingChunks, key)
    THEN [ s EXCEPT !.pendingChunks = Append(@, key),
                    !.appendLog = Append(@, key) ]
    ELSE s

RECURSIVE HighLoop(_, _, _, _)
\* iterations lo .. hi of the first loop of updateChunks (lines 39-53)
HighLoop(s, coords, lo, hi) ==
    IF lo >= hi
    THEN IF lo > hi THEN s
         ELSE QueueIfNeeded(s, ChunkKeyOf(coords[lo][1], coords[lo][2]))
    ELSE CHOOSE r \in { HighLoop(s1, coords, Mid(lo, hi) + 1, hi) :
                          s1 \in { HighLoop(s, coords, lo, Mid(lo, hi)) } } :
           TRUE

\* "If chunk isn't loaded yet ..." (lines 74-76)
PlaceholdersIfNeeded(s, key, two) ==
    IF key \notin s.loadedChunks /\ key \notin s.generatedChunks
    THEN createPlaceholdersForChunk(s, key, IF key \in two THEN 2 ELSE 1)
    ELSE s

RECURSIVE LowLoop(_, _, _, _, _)
\* iterations lo .. hi of the second loop of updateChunks (lines 56-78);
\* two is the set of keys for which Math.random makes
\* createPlaceholdersForChunk draw 2 islands
LowLoop(s, coords, lo, hi, two) ==
    IF lo >= hi
    THEN IF lo > hi THEN s
         ELSE LET key == ChunkKeyOf(coords[lo][1], coords[lo][2])
              IN PlaceholdersIfNeeded(QueueIfNeeded(s, key), key, two)
    ELSE CHOOSE r \in { LowLoop(s1, coords, Mid(lo, hi) + 1, hi, two) :
                          s1 \in { LowLoop(s, coords, lo, Mid(lo, hi),
                                           two) } } : TRUE

\* a tick that materializes nothing
LoadHighDetail_skip(s, key) == s

\* a load loop that does not ask whether the chunk is generated
LoadHighDetail_ungenerated(s, key) ==
    IF key \notin s.loadedChunks
    THEN addIslandMeshes([ s EXCEPT !.loadedChunks = @ \cup { key } ],
                         IslandsOfChunk(s, key))
    ELSE s

\* one iteration of "Load high-detail chunks" (lines 81-110)
LoadHighDetail(s, key) ==
    IF key \notin s.loadedChunks /\ key \in s.generatedChunks
    THEN LET ids == IslandsOfChunk(s, key)
             s1 == addIslandMeshes(s, ids)
             gone == { Lit.placeholder \o id : id \in ids }
                        \cap s1.lowPolyIslands
         IN [ s1 EXCEPT
                !.scene = SceneRemove(@, { PlaceholderObj(p) : p \in gone }),
                !.lowPolyIslands = @ \ gone,
                !.loadedChunks = @ \cup { key } ]
    ELSE s

RECURSIVE LoadLoop(_, _, _, _)
\* iterations lo .. hi of "Load high-detail chunks" (lines 81-110)
LoadLoop(s, coords, lo, hi) ==
    IF lo >= hi
    THEN IF lo > hi THEN s
         ELSE LoadHighDetail(s, ChunkKeyOf(coords[lo][1], coords[lo][2]))
    ELSE CHOOSE r \in { LoadLoop(s1, coords, Mid(lo, hi) + 1, hi) :
                          s1 \in { LoadLoop(s, coords, lo, Mid(lo, hi)) } } :
           TRUE

\* an unload loop that unloads nothing
UnloadLoop_none(s, far) == s

\* "Unload chunks that are too far away" (lines 113-121) over the keys of
\* far, the loaded chunks outside lowDetailChunks
UnloadLoop(s, far) == unloadChunks(s, far)

\* the head of the queue handed to a timer at distance d from the player
Schedule(s, chunkKey, chunkX, chunkZ, d) ==
    [ s EXCEPT
        !.isGeneratingChunk = TRUE,
        !.timers = Append(@,
            [ chunkKey |-> chunkKey, chunkX |-> chunkX, chunkZ |-> chunkZ,
              distanceToPlayer |-> d,
              delay |-> IF d <= highDetailDistance THEN 0 ELSE 100 ]) ]

\* a dequeue that takes the newest key, pendingChunks.pop(), instead of the
\* oldest
Dequeue_pop(s, pcx, pcz) ==
    LET chunkKey == s.pendingChunks[Len(s.pendingChunks)]
        parts == split(chunkKey, Ch.underscore)
        chunkX == parseInt(parts[1])
        chunkZ == parseInt(parts[2])
        distanceToPlayer == Abs(chunkX - pcx) + Abs(chunkZ - pcz)
    IN Schedule([ s EXCEPT !.pendingChunks = SubSeq(@, 1, Len(@) - 1) ],
                chunkKey, chunkX, chunkZ, distanceToPlayer)

\* the part of processNextPendingChunk past its first test (lines 178-218):
\* the head of the queue is taken off and handed to a timer
Dequeue(s, pcx, pcz) ==
    LET chunkKey == Head(s.pendingChunks)
        parts == split(chunkKey, Ch.underscore)
        chunkX == parseInt(parts[1])
        chunkZ == parseInt(parts[2])
        distanceToPlayer == Abs(chunkX - pcx) + Abs(chunkZ - pcz)
    IN Schedule([ s EXCEPT !.pendingChunks = Tail(@) ],
                chunkKey, chunkX, chunkZ, distanceToPlayer)

\* a processNextPendingChunk with the busy test inverted
processNextPendingChunk_invertedBusy(s, pcx, pcz) ==
    IF ~s.isGeneratingChunk \/ Len(s.pendingChunks) = 0 THEN s
    ELSE Dequeue(s, pcx, pcz)

\* a processNextPendingChunk that does not look at the busy flag
processNextPendingChunk_ignoresBusy(s, pcx, pcz) ==
    IF Len(s.pendingChunks) = 0 THEN s ELSE Dequeue(s, pcx, pcz)

\* a processNextPendingChunk that generates at once, inside the tick,
\* instead of handing the chunk to a timer
processNextPendingChunk_synchronous(s, pcx, pcz) ==
    IF s.isGeneratingChunk \/ Len(s.pendingChunks) = 0 THEN s
    ELSE generateChunk([ s EXCEPT !.pendingChunks = Tail(@) ],
                       parseInt(split(Head(s.pendingChunks), Ch.underscore)[1]),
                       parseInt(split(Head(s.pendingChunks), Ch.underscore)[2]),
                       TRUE, FALSE)

\* ChunkManager.processNextPendingChunk with the player in chunk (pcx, pcz):
\* the callback handed to setTimeout is kept with the values it closes over
processNextPendingChunk(s, pcx, pcz) ==
    IF s.isGeneratingChunk \/ Len(s.pendingChunks) = 0 THEN s
    ELSE Dequeue(s, pcx, pcz)

\* IslandGenerator.clearUnusedCaches: the geometry and texture caches are
\* no part of the streaming state, which a prune leaves as it is
clearUnusedCaches(s, usedIslandIds) == s

\* visibleIslandIds when the load loop is done: the islands of the loaded
\* high-detail chunks
VisibleIslandIds(s, cx, cz) ==
    UNION { IslandsOfChunk(s, key) : key \in HighSet(cx, cz) \cap s.loadedChunks }

\* this.chunkUpdateCounter++; if (this.chunkUpdateCounter > 50): the test of
\* "Periodically clear caches" in the frame that starts in state s
PruneDue(s) == s.chunkUpdateCounter + 1 > PRUNE_EVERY

\* a counter update that clears the caches one frame early
CountUpdate_early(s, visibleIslandIds) ==
    IF s.chunkUpdateCounter + 1 >= PRUNE_EVERY
    THEN [ clearUnusedCaches(s, visibleIslandIds)
             EXCEPT !.chunkUpdateCounter = 0 ]
    ELSE [ s EXCEPT !.chunkUpdateCounter = s.chunkUpdateCounter + 1 ]

\* "Periodically clear caches" (lines 127-131)
CountUpdate(s, visibleIslandIds) ==
    IF PruneDue(s)
    THEN [ clearUnusedCaches(s, visibleIslandIds)
             EXCEPT !.chunkUpdateCounter = 0 ]
    ELSE [ s EXCEPT !.chunkUpdateCounter = s.chunkUpdateCounter + 1 ]

\* updateChunks from "Load high-detail chunks" on (lines 81-131)
updateChunksTail(s2, cx, cz) ==
    The({ CountUpdate(
              The({ processNextPendingChunk(s4, cx, cz) :
                      s4 \in { UnloadLoop(s3, s3.loadedChunks
                                                \ LowSet(cx, cz)) } }),
              VisibleIslandIds(s3, cx, cz)) :
            s3 \in { LoadLoop(s2, HighCoords(cx, cz), 1, Len(HighOffsets)) } })

\* ChunkManager.updateChunks for a player position in chunk (cx, cz)
updateChunks(s, cx, cz, two) ==
    The({ updateChunksTail(s2, cx, cz) :
            s2 \in { LowLoop(s1, LowRingCoords(cx, cz), 1,
                                Len(LowRingOffsets), two) :
                       s1 \in { HighLoop(s, HighCoords(cx, cz), 1,
                                         Len(HighOffsets)) } } })

(* ------------------------------------------------------------------ *)
(* The deferred generation callback (lines 201-218)                    *)
(* ------------------------------------------------------------------ *)
RemoveAt(seq, i) == SubSeq(seq, 1, i - 1) \o SubSeq(seq, i + 1, Len(seq))

\* "If this was a high priority chunk, load it immediately" (lines 206-212)
loadIfNear(s, t) ==
    LET key == ChunkKeyOf(t.chunkX, t.chunkZ)
    IN IF t.distanceToPlayer <= highDetailDistance
          /\ key \notin s.loadedChunks
       THEN loadChunk(s, key) ELSE s

\* a finally block that leaves the busy flag set
CallbackFinally_keepsBusy(s) == s

\* the finally block
CallbackFinally(s) == [ s EXCEPT !.isGeneratingChunk = FALSE ]

\* the whole callback of timer t, nothing thrown
Callback(s, t, doSave) ==
    CallbackFinally(
        loadIfNear(generateChunk(s, t.chunkX, t.chunkZ,
                                 t.distanceToPlayer <= highDetailDistance,
                                 doSave),
                   t))

\* generateChunk throws while building island number n of a chunk that is
\* not generated yet: n records are stored already, the chunk is not yet
\* marked generated
generateChunkThrowing(s, chunkX, chunkZ, highDetail, n) ==
    [ s EXCEPT !.islandData =
        LET recs == ChunkRecords(chunkX, chunkZ, highDetail)
        IN StoreAll(@, SubSeq(recs, 1, Min(n, Len(recs)))) ]

\* generateChunk throws in removePlaceholdersForChunk (line 345) of a chunk
\* that is not generated yet: the records are stored and the chunk is
\* marked generated (line 342), no placeholder is removed, nothing is saved
generateChunkThrowingLate(s, chunkX, chunkZ, highDetail) ==
    [ s EXCEPT
        !.islandData = StoreAll(@, ChunkRecords(chunkX, chunkZ, highDetail)),
        !.generatedChunks = @ \cup { ChunkKeyOf(chunkX, chunkZ) } ]

\* a callback without its finally block
CallbackThrowing_noFinally(s, t, n, late) ==
    IF late
    THEN generateChunkThrowingLate(s, t.chunkX, t.chunkZ,
                                   t.distanceToPlayer <= highDetailDistance)
    ELSE generateChunkThrowing(s, t.chunkX, t.chunkZ,
                               t.distanceToPlayer <= highDetailDistance, n)

\* the whole callback of timer t when generateChunk throws, in the loop
\* after n islands or late in removePlaceholdersForChunk: the rest of the
\* try block is skipped, the catch block logs and the finally block runs
CallbackThrowing(s, t, n, late) ==
    CallbackFinally(
        IF late
        THEN generateChunkThrowingLate(s, t.chunkX, t.chunkZ,
                                       t.distanceToPlayer
                                         <= highDetailDistance)
        ELSE generateChunkThrowing(s, t.chunkX, t.chunkZ,
                                   t.distanceToPlayer <= highDetailDistance,
                                   n))

\* a dispose that also forgets which chunks were generated
disposeChunkManager_forgetsGenerated(s) ==
    [ UnloadLoop(s, s.loadedChunks) EXCEPT
        !.lowPolyIslands = { }, !.loadedChunks = { },
        !.pendingChunks = << >>, !.generatedChunks = { } ]

\* ChunkManager.dispose
disposeChunkManager(s) ==
    LET s1 == UnloadLoop(s, s.loadedChunks)
    IN [ s1 EXCEPT
           !.scene = SceneRemove(@, { PlaceholderObj(p) :
                                        p \in s1.lowPolyIslands }),
           !.lowPolyIslands = { },
           !.loadedChunks = { },
           !.pendingChunks = << >> ]

\* Game.dispose as far as it touches this state: save, then dispose the
\* chunk manager; the animation loop is cancelled
disposeGame(s) == disposeChunkManager(saveData(s))

(* ------------------------------------------------------------------ *)
(* Bounds                                                              *)
(* ------------------------------------------------------------------ *)
\* the player stays within chunks 0 .. MaxMove on the x axis
MaxMove == 1
\* SpecGen: no chunk is loaded once this many geometry and texture objects
\* have been made
MaxObjects == 10
\* SpecGen: the build of one of the first MaxFaultAt records of a chunk
\* can go wrong
MaxFaultAt == 1
\* PruneCall: the texture store holds up to MaxOver entries more than its
\* ceiling
MaxOver == 1
\* SegmentsCall: the size groups 1 .. MaxSegSize
MaxSegSize == 20
\* the walk of SpecWalk ends in chunk (MaxWalk, MaxWalk)
MaxWalk == 2
\* number of chunks in view that the world saved before SpecStay has not
\* generated yet
StayLeft == 3
\* number of islands per chunk whose seed strings SpecFn hashes
HashIslands == 3
\* SpecFn generates the chunks (x, z) with |x|, |z| <= GenRadius
GenRadius == 2
\* number of ticks of a run
MaxTicks == 4
\* number of exceptions a run of SpecFault injects
MaxFaults == 1
\* number of chunks in view that the world saved before SpecLive has not
\* generated yet
LiveLeft == 2

Positions == { << x, 0 >> : x \in 0 .. MaxMove }

\* the chunk keys of a session that stands at the origin, in the order its
\* first tick queues them
OriginQueue ==
    LET hs == HighCoords(0, 0)
        ls == LowRingCoords(0, 0)
    IN hs \o ls

\* those keys, followed by the chunk keys that come into view when that
\* session then moves one chunk east, in the order the tick queues them
PriorQueue ==
    OriginQueue \o [ i \in 1 .. 2 * lowDetailDistance + 1 |->
                      << lowDetailDistance + 1, i - 1 - lowDetailDistance >> ]

\* highDetail of a callback of the earlier session: its chunks were dequeued
\* with the player at the origin or, those further east, one chunk east of
\* it, which is further than highDetailDistance from them
PriorHighDetail(c) == Abs(c[1]) + Abs(c[2]) <= highDetailDistance

\* localStorage after an earlier session generated the first n chunks of its
\* queue and saved
PriorStorage(n) ==
    [ islandData |->
        Some(UNION { { Serializable(r) :
                         r \in Range(ChunkRecords(c[1], c[2],
                                                  PriorHighDetail(c))) } :
                     c \in { PriorQueue[i] : i \in 1 .. n } }),
      generatedChunks |->
        Some({ ChunkKeyOf(PriorQueue[i][1], PriorQueue[i][2]) :
                 i \in 1 .. n }) ]

EmptyStore ==
    [ loadedChunks |-> { }, pendingChunks |-> << >>,
      isGeneratingChunk |-> FALSE, lowPolyIslands |-> { },
      chunkUpdateCounter |-> 0, islandData |-> << >>,
      generatedChunks |-> { }, scene |-> EmptyBag,
      storage |-> [ islandData |-> NoValue, generatedChunks |-> NoValue ],
      timers |-> << >>, appendLog |-> << >>, genLog |-> << >> ]

\* localStorage as an earlier session left it, with none or with all but
\* one of the chunks around the origin generated and saved
InitStorages ==
    { IF n = 0 THEN EmptyStore.storage ELSE PriorStorage(n) :
        n \in { 0, Len(OriginQueue) - 1 } }

\* the Math.random draws of one tick's createPlaceholdersForChunk calls:
\* the set of ring chunks that get two placeholders
PlaceholderDraws(cx, cz) ==
    LET ring == KeysOf(LowRingCoords(cx, cz))
        last == ChunkKeyOf(cx + lowDetailDistance, cz + lowDetailDistance)
    IN { { }, { last }, ring }

(* ------------------------------------------------------------------ *)
(* Specification                                                       *)
(* ------------------------------------------------------------------ *)
\* new DataManager() and new ChunkManager(): the store is loaded from
\* localStorage, the ship is at the origin
InitFrom(stores) ==
    /\ storage \in stores
    /\ islandData = LoadedIslandData(storage)
    /\ generatedChunks = LoadedGeneratedChunks(storage)
    /\ loadedChunks = { }
    /\ pendingChunks = << >>
    /\ isGeneratingChunk = FALSE
    /\ lowPolyIslands = { }
    /\ chunkUpdateCounter = 0
    /\ scene = EmptyBag
    /\ timers = << >>
    /\ playerChunk = << 0, 0 >>
    /\ disposed = FALSE
    /\ tickCount = 0
    /\ faultCount = 0
    /\ thrownAt = ""
    /\ fnArgs = NoValue
    /\ fnResult = NoValue
    /\ appendLog = << >>
    /\ genLog = << >>
    /\ generator = NewGenerator

Init == InitFrom(InitStorages)

\* the ship moves less than one chunk between two frames
Reachable(from, to) ==
    Abs(to[1] - from[1]) <= 1 /\ Abs(to[2] - from[2]) <= 1

\* one animation frame: updateChunks(playerShip.position); the first frame
\* finds the ship where it was created
Tick ==
    /\ ~disposed
    /\ tickCount < MaxTicks
    /\ \E p \in Positions :
         /\ Reachable(playerChunk, p)
         /\ tickCount = 0 => p = playerChunk
         /\ \E two \in PlaceholderDraws(p[1], p[2]) :
              \E s \in { updateChunks(Cur, p[1], p[2], two) } : Install(s)
         /\ playerChunk' = p
    /\ tickCount' = tickCount + 1
    /\ UNCHANGED << disposed, faultCount, thrownAt, fnArgs, fnResult, generator >>

\* one animation frame of a loop that never stops: as Tick, the frames past
\* the first one not counted
TickOn ==
    /\ ~disposed
    /\ \E p \in Positions :
         /\ Reachable(playerChunk, p)
         /\ tickCount = 0 => p = playerChunk
         /\ \E two \in PlaceholderDraws(p[1], p[2]) :
              \E s \in { updateChunks(Cur, p[1], p[2], two) } : Install(s)
         /\ playerChunk' = p
    /\ tickCount' = Min(tickCount + 1, 1)
    /\ UNCHANGED << disposed, faultCount, thrownAt, fnArgs, fnResult, generator >>

\* a timer fires and its callback runs to completion
TimerFire ==
    /\ \E i \in DOMAIN timers : \E doSave \in BOOLEAN :
         \E s \in { Callback(
                       [ Cur EXCEPT !.timers = RemoveAt(@, i),
                                    !.genLog = Append(@, timers[i].chunkKey) ],
                       timers[i], doSave) } : Install(s)
    /\ UNCHANGED << playerChunk, disposed, tickCount, faultCount, thrownAt,
                    fnArgs, fnResult, generator >>

\* a timer fires and generateChunk throws
TimerFireThrow ==
    /\ faultCount < MaxFaults
    /\ \E i \in DOMAIN timers : \E n \in 0 .. 1 : \E late \in BOOLEAN :
         /\ timers[i].chunkKey \notin generatedChunks
         /\ late => n = 0
         /\ \E s \in { CallbackThrowing(
                          [ Cur EXCEPT
                              !.timers = RemoveAt(@, i),
                              !.genLog = Append(@, timers[i].chunkKey) ],
                          timers[i], n, late) } : Install(s)
         /\ thrownAt' = IF late THEN "removePlaceholdersForChunk"
                                ELSE "islands"
    /\ faultCount' = faultCount + 1
    /\ UNCHANGED << playerChunk, disposed, tickCount, fnArgs, fnResult, generator >>

\* the page unloads: Game.dispose()
Dispose ==
    /\ ~disposed
    /\ \E s \in { disposeGame(Cur) } : Install(s)
    /\ disposed' = TRUE
    /\ UNCHANGED << playerChunk, tickCount, faultCount, thrownAt, fnArgs,
                    fnResult, generator >>

Next == Tick \/ TimerFire \/ Dispose

Spec == Init /\ [][Next]_vars

NextFault == Tick \/ TimerFire \/ TimerFireThrow \/ Dispose

SpecFault == Init /\ [][NextFault]_vars

ISLAND_NAME_PROMPT_DISTANCE == 3

\* the islands checkForIslandNaming can prompt for with the ship in chunk
\* (cx, cz): those without a name at less than
\* ISLAND_NAME_PROMPT_DISTANCE from some point of the chunk.  Distances
\* are in hundredths, cut off at ten units
NearUnnamed(s, cx, cz) ==
    LET Off(v, c) ==
            Min(1000, Max(0, Max(c * CHUNK_SIZE * Scale - v,
                                 v - (c + 1) * CHUNK_SIZE * Scale))
                        \div (Scale \div 100))
        Near(island) ==
            LET dx == Off(island.pos.x, cx)
                dz == Off(island.pos.z, cz)
            IN dx * dx + dz * dz
                 < (ISLAND_NAME_PROMPT_DISTANCE * 100)
                     * (ISLAND_NAME_PROMPT_DISTANCE * 100)
    IN { id \in DOMAIN s.islandData :
           s.islandData[id].name = NoValue /\ Near(s.islandData[id]) }

\* the body of checkForIslandNaming for the island id the ship is near,
\* when prompt() returns newName: the name is stored and saved, and the
\* mesh is removed, if there is one, and added again
checkForIslandNaming(s, id, newName) ==
    LET s1 == saveData([ s EXCEPT !.islandData[id].name = Some(newName) ])
    IN addIslandMeshes(IF s1.islandData[id].mesh
                       THEN removeIslandMeshes(s1, { id })
                       ELSE s1, { id })

\* the most islands a session names
MaxNamed == 2

\* one animation frame of Game.animate in which the player names an island
\* the ship is near: updateChunks, then checkForIslandNaming
NameTick ==
    /\ ~disposed
    /\ tickCount < MaxTicks
    /\ Cardinality({ id \in DOMAIN islandData :
                       islandData[id].name # NoValue }) < MaxNamed
    /\ \E p \in Positions :
         /\ Reachable(playerChunk, p)
         /\ tickCount = 0 => p = playerChunk
         /\ \E two \in PlaceholderDraws(p[1], p[2]) :
              \E s \in { updateChunks(Cur, p[1], p[2], two) } :
              \E id \in NearUnnamed(s, p[1], p[2]) :
                 Install(checkForIslandNaming(s, id, "Ilha"))
         /\ playerChunk' = p
    /\ tickCount' = tickCount + 1
    /\ UNCHANGED << disposed, faultCount, thrownAt, fnArgs, fnResult, generator >>

NextName == NameTick \/ TimerFire \/ Dispose


\* one animation frame with the ship where it was
StayTick ==
    /\ ~disposed
    /\ \E two \in PlaceholderDraws(playerChunk[1], playerChunk[2]) :
         \E s \in { updateChunks(Cur, playerChunk[1], playerChunk[2], two) } :
            Install(s)
    /\ tickCount' = Min(tickCount + 1, 1)
    /\ UNCHANGED << playerChunk, disposed, faultCount, thrownAt, fnArgs,
                    fnResult, generator >>

NextStay == StayTick \/ TimerFire


\* the seed strings of the chunks around the origin: key + salt for the
\* salts of the first HashIslands islands
HashInputs ==
    { ChunkKeyOf(x, z) \o salt :
        x \in -1 .. 1, z \in -1 .. 1,
        salt \in { << >> }
                   \cup { pre \o IntToStr(i) :
                            pre \in { Lit.posX, Lit.posZ, Lit.size, Lit.biome },
                            i \in 0 .. HashIslands - 1 } }

\* a seed function hashes a seed string, with ChunkManager.simpleHash and
\* with IslandGenerator.hashCode
HashCall ==
    /\ \E str \in HashInputs :
         /\ fnArgs' = [ fn |-> "hash", str |-> str ]
         /\ fnResult' = [ simpleHash |-> simpleHashSigned(str),
                          hashCode |-> hashCodeSigned(str) ]
    /\ UNCHANGED << loadedChunks, pendingChunks, isGeneratingChunk,
                    lowPolyIslands, chunkUpdateCounter, islandData,
                    generatedChunks, scene, storage, timers, playerChunk,
                    disposed, tickCount, faultCount, thrownAt, appendLog,
                    genLog, generator >>

\* the island loop of generateChunk runs for a chunk that is not generated
GenerateCall ==
    /\ \E c \in ((0 - GenRadius) .. GenRadius)
                     \X ((0 - GenRadius) .. GenRadius) :
       \E highDetail \in BOOLEAN :
         /\ fnArgs' = [ fn |-> "generateChunk", chunkX |-> c[1],
                        chunkZ |-> c[2], highDetail |-> highDetail ]
         /\ fnResult' = ChunkRecords(c[1], c[2], highDetail)
    /\ UNCHANGED << loadedChunks, pendingChunks, isGeneratingChunk,
                    lowPolyIslands, chunkUpdateCounter, islandData,
                    generatedChunks, scene, storage, timers, playerChunk,
                    disposed, tickCount, faultCount, thrownAt, appendLog,
                    genLog, generator >>

\* one animation frame of a walk along the diagonal from the origin to
\* (MaxWalk, MaxWalk), a chunk at a time or staying
WalkTick ==
    /\ ~disposed
    /\ tickCount < MaxTicks
    /\ \E p \in { << x, x >> : x \in 0 .. MaxWalk } :
         /\ Reachable(playerChunk, p)
         /\ tickCount = 0 => p = playerChunk
         /\ \E two \in PlaceholderDraws(p[1], p[2]) :
              \E s \in { updateChunks(Cur, p[1], p[2], two) } : Install(s)
         /\ playerChunk' = p
    /\ tickCount' = tickCount + 1
    /\ UNCHANGED << disposed, faultCount, thrownAt, fnArgs, fnResult, generator >>

NextWalk == WalkTick \/ TimerFire

SpecWalk == Init /\ [][NextWalk]_vars

\* a session on a saved world whose generated-chunks item could not be
\* read: loadData keeps the islands and resets generatedChunks (lines
\* 1806-1815)
ResetStorage ==
    [ islandData |-> PriorStorage(Len(OriginQueue) - 1).islandData,
      generatedChunks |-> NoValue ]

SpecReset == InitFrom({ ResetStorage }) /\ [][Next]_vars

\* a session whose player names an island in every frame, on a saved world
\* or on one whose chunk item was reset by loadData
SpecName ==
    /\ InitFrom({ PriorStorage(Len(OriginQueue) - 1), ResetStorage })
    /\ [][NextName]_vars

\* the island item an earlier session saved after it generated chunk
\* (0, 0) at high detail, in the order saveData wrote the records
GoodIslandElems ==
    [ i \in DOMAIN ChunkRecords(0, 0, TRUE) |->
        JObject(Serializable(ChunkRecords(0, 0, TRUE)[i])) ]

\* texts under the island key: the saved list, text that is no JSON, JSON
\* that is no array, an array with a null, with a number, with an object
\* that has no id, and the saved list with a number after it
IslandItems ==
    { Some(JArray(GoodIslandElems)),
      Some(NotJSON), Some(JNull), Some(JNumber),
      Some(JObject([ version |-> JNumber ])),
      Some(JString(ChunkKeyOf(0, 0))),
      Some(JArray(<< JNull >>)),
      Some(JArray(<< JNumber >>)),
      Some(JArray(<< JObject([ name |-> JNull ]) >>)),
      Some(JArray(Append(GoodIslandElems, JNumber))),
      Some(JArray(Append(GoodIslandElems, JNull))) }

\* texts under the chunk key: the saved list, text that is no JSON, and
\* JSON that is no array
ChunkItems ==
    { Some(JArray(<< JString(ChunkKeyOf(0, 0)),
                     JString(ChunkKeyOf(0, 1)) >>)),
      Some(NotJSON), Some(JNull), Some(JNumber),
      Some(JObject([ version |-> JNumber ])),
      Some(JString(ChunkKeyOf(0, 0))) }

\* new DataManager() over the two items
LoadCall ==
    /\ \E islandItem \in IslandItems : \E chunkItem \in ChunkItems :
         /\ fnArgs' = [ fn |-> "loadData", islandItem |-> islandItem,
                        chunkItem |-> chunkItem ]
         /\ fnResult' = loadData(islandItem, chunkItem)
    /\ UNCHANGED << loadedChunks, pendingChunks, isGeneratingChunk,
                    lowPolyIslands, chunkUpdateCounter, islandData,
                    generatedChunks, scene, storage, timers, playerChunk,
                    disposed, tickCount, faultCount, thrownAt, appendLog,
                    genLog, generator >>

\* localStorage as a build left it whose biome table had a biome "Swamp"
\* that BIOMES does not have: the first island of every chunk is of it
OldBiomeStorage ==
    LET st == PriorStorage(Len(OriginQueue) - 1)
    IN [ islandData |->
           Some({ [ r EXCEPT !.biome = IF r.id[Len(r.id)] = Ch.zero
                                       THEN "Swamp" ELSE @ ] :
                    r \in st.islandData[1] }),
         generatedChunks |-> st.generatedChunks ]

SpecBiome == InitFrom({ OldBiomeStorage }) /\ [][Next]_vars

\* the chunks SpecGen loads and unloads: (0, 1) holds volcano islands of
\* equal size groups, (1, -1) and (2, -1) an ad island of the same image
GenRegions == { << 0, 1 >>, << 1, -1 >>, << 2, -1 >> }

\* localStorage after an earlier session generated GenRegions from the
\* origin
GenStorage ==
    [ islandData |->
        Some(UNION { { Serializable(r) :
                         r \in Range(ChunkRecords(c[1], c[2],
                                                  PriorHighDetail(c))) } :
                     c \in GenRegions }),
      generatedChunks |->
        Some({ ChunkKeyOf(c[1], c[2]) : c \in GenRegions }) ]

\* the ids of the records of each chunk of GenRegions in the order
\* Object.values(islandData) has them, which is the order they were
\* generated and saved in
GenRegionIds ==
    [ c \in GenRegions \cup Range(HighCoords(0, 0)) |->
        LET made == ChunkRecords(c[1], c[2], PriorHighDetail(c))
        IN [ i \in DOMAIN made |-> made[i].id ] ]

\* the records of chunk c in that order
RegionRecords(data, c) ==
    [ i \in DOMAIN GenRegionIds[c] |-> data[GenRegionIds[c][i]] ]

\* what can go wrong in one loadChunk: nothing, or the build of the record
\* at index at is invalid or throws
GenFaults ==
    { [ at |-> 0, kind |-> "none" ] } \cup { [ at |-> i, kind |-> k ] :
                         i \in 1 .. MaxFaultAt, k \in { "invalid", "throws" } }

\* loadChunk(key) as updateChunks or a generation callback calls it, on the
\* generator as well
GenLoad ==
    /\ ~disposed
    /\ Len(generator.content) < MaxObjects
    /\ \E c \in GenRegions : \E fault \in GenFaults :
         LET key == ChunkKeyOf(c[1], c[2])
             recs == RegionRecords(islandData, c)
             g == AddLoop(generator, recs, 1, fault)
         IN /\ key \notin loadedChunks
            /\ generator' =
                 [ g EXCEPT
                     !.thrown = FALSE,
                     !.lastFault =
                        IF fault.at \in DOMAIN recs
                        THEN [ id |-> Some(recs[fault.at].id),
                               kind |-> fault.kind ]
                        ELSE NewGenerator.lastFault ]
            /\ \E s \in { addIslandMeshes(
                              [ Cur EXCEPT !.loadedChunks = @ \cup { key } ],
                              DOMAIN g.groups \ DOMAIN generator.groups) } :
                 Install(s)
    /\ UNCHANGED << playerChunk, disposed, tickCount, faultCount, thrownAt,
                    fnArgs, fnResult >>

\* unloadChunk(key) as updateChunks calls it, on the generator as well
GenUnload ==
    /\ ~disposed
    /\ \E c \in GenRegions :
         LET key == ChunkKeyOf(c[1], c[2])
         IN /\ key \in loadedChunks
            /\ generator' = RemoveLoop(generator,
                                       RegionRecords(islandData, c), 1)
            /\ \E s \in { unloadChunk(Cur, key) } : Install(s)
    /\ UNCHANGED << playerChunk, disposed, tickCount, faultCount, thrownAt,
                    fnArgs, fnResult >>

\* the onLoad callback of a texture fetch runs
GenTextureLoaded ==
    /\ \E load \in generator.loads :
         generator' = TextureLoaded(generator, load)
    /\ UNCHANGED << loadedChunks, pendingChunks, isGeneratingChunk,
                    lowPolyIslands, chunkUpdateCounter, islandData,
                    generatedChunks, scene, storage, timers, playerChunk,
                    disposed, tickCount, faultCount, thrownAt, fnArgs,
                    fnResult, appendLog, genLog >>

RECURSIVE UnloadAll(_, _, _)
\* the unloadChunk calls of ChunkManager.dispose on the generator
UnloadAll(g, data, cs) ==
    IF cs = { } THEN g
    ELSE LET c == CHOOSE c \in cs : TRUE
         IN UnloadAll(RemoveLoop(g, RegionRecords(data, c), 1), data,
                      cs \ { c })

\* the page unloads: Game.dispose(), which disposes the chunk manager and
\* then the island generator
GenDispose ==
    /\ ~disposed
    /\ generator' =
         IG_dispose(UnloadAll(generator, islandData,
                              { c \in GenRegions :
                                  ChunkKeyOf(c[1], c[2]) \in loadedChunks }))
    /\ \E s \in { disposeGame(Cur) } : Install(s)
    /\ disposed' = TRUE
    /\ UNCHANGED << playerChunk, tickCount, faultCount, thrownAt, fnArgs,
                    fnResult >>

NextGen == GenLoad \/ GenUnload \/ GenTextureLoaded \/ GenDispose

SpecGen == InitFrom({ GenStorage }) /\ [][NextGen]_vars

RECURSIVE LoadAll(_, _, _, _)
\* the loadChunk calls of the load loop of a frame on the generator, for
\* the chunks coords[i], coords[i + 1], ...
LoadAll(g, data, coords, i) ==
    IF i > Len(coords) THEN g
    ELSE The({ LoadAll(g1, data, coords, i + 1) :
                 g1 \in { AddLoop(g, RegionRecords(data, coords[i]), 1,
                                  [ at |-> 0, kind |-> "none" ]) } })

\* one animation frame with the ship at the origin, on the generator as
\* well: updateChunks, the addIslandMesh calls of the chunks its load loop
\* loads and, when PruneDue, clearUnusedCaches(visibleIslandIds).  No chunk
\* goes out of view, so the frame unloads nothing; keep is drawn only when
\* the texture store is over its ceiling
GenTick ==
    /\ ~disposed
    /\ \E two \in PlaceholderDraws(0, 0) :
       \E s \in { updateChunks(Cur, 0, 0, two) } :
       \E keep \in IF Cardinality(DOMAIN generator.textureCache)
                        > TEXTURE_CACHE_MAX
                    THEN SUBSET DOMAIN generator.textureCache
                    ELSE { { } } :
         /\ Install(s)
         /\ generator' =
              LET fresh == SelectSeq(HighCoords(0, 0),
                                     LAMBDA c : ChunkKeyOf(c[1], c[2])
                                        \in s.loadedChunks \ loadedChunks)
                  g1 == LoadAll([ generator EXCEPT !.pruneRequested = FALSE ],
                                s.islandData, fresh, 1)
              IN IF PruneDue(Cur)
                 THEN IG_clearUnusedCaches(g1, VisibleIslandIds(s, 0, 0),
                                           keep)
                 ELSE g1
    /\ tickCount' = Min(tickCount + 1, 1)
    /\ UNCHANGED << playerChunk, disposed, faultCount, thrownAt, fnArgs,
                    fnResult >>

NextPrune == GenTick \/ GenTextureLoaded

\* a session on a saved world that holds every chunk in view of the origin,
\* followed on the generator
SpecPrune == InitFrom({ PriorStorage(Len(OriginQueue)) }) /\ [][NextPrune]_vars

\* the ad island of chunk (1, -1), as an earlier session generated it
PrunedIsland ==
    CHOOSE r \in Range(ChunkRecords(1, -1, PriorHighDetail(<< 1, -1 >>))) :
        r.outdoor # NoValue

\* the numbers of entries of the three stores when clearUnusedCaches is
\* called: at their ceilings and beyond
PrunedSizes ==
    { GEOMETRY_CACHE_MAX, GEOMETRY_CACHE_MAX + 1 }
        \X { BILLBOARD_CACHE_MAX, BILLBOARD_CACHE_MAX + 1 }
        \X (TEXTURE_CACHE_MAX .. TEXTURE_CACHE_MAX + MaxOver)

\* for n = << nG, nB, nT >>, a generator whose three stores hold nG, nB
\* and nT entries and which has materialized PrunedIsland: the stores get
\* all but one of their entries under keys of other islands, then
\* addIslandMesh(PrunedIsland) runs, and then the callback of its texture
\* fetch
FilledGenerator ==
    [ n \in PrunedSizes |->
        LET nG == n[1] - 1
            nB == n[2] - 1
            nT == n[3] - 1
            filled ==
              [ NewGenerator EXCEPT
                  !.geometryCache =
                     [ k \in { << "Forest", 1, 100 + i >> : i \in 1 .. nG }
                         |-> k[3] - 100 ],
                  !.billboardGeometryCache =
                     [ k \in { << 0, i >> : i \in 1 .. nB } |-> nG + k[2] ],
                  !.textureCache =
                     [ u \in { ToString(i) : i \in 1 .. nT } |->
                         nG + nB + (CHOOSE i \in 1 .. nT : ToString(i) = u) ],
                  !.content = [ h \in 1 .. nG + nB + nT |->
                                  IF h <= nG THEN [ kind |-> "terrain" ]
                                  ELSE IF h <= nG + nB THEN [ kind |-> "plane" ]
                                  ELSE [ kind |-> "texture" ] ] ]
            added == IG_addIslandMesh(filled, PrunedIsland, "none")
        IN TextureLoaded(added, CHOOSE load \in added.loads : TRUE) ]

\* clearUnusedCaches(usedIslandIds) on stores filled up to, and beyond,
\* their ceilings, with the materialized island in usedIslandIds; kept is
\* the number of textures Math.random() keeps, drawn only when the texture
\* store is over its ceiling, the texture of the island being the last
\* that is kept
PruneCall ==
    /\ \E n \in PrunedSizes :
       \E kept \in IF n[3] > TEXTURE_CACHE_MAX THEN 0 .. n[3] ELSE { 0 } :
         /\ fnArgs' = [ fn |-> "clearUnusedCaches", geometry |-> n[1],
                        billboard |-> n[2], textures |-> n[3],
                        kept |-> kept,
                        usedIslandIds |-> { PrunedIsland.id } ]
         /\ fnResult' =
              IG_clearUnusedCaches(
                  FilledGenerator[n], { PrunedIsland.id },
                  { ToString(i) : i \in 1 .. Min(kept, n[3] - 1) }
                    \cup (IF kept = n[3]
                          THEN { PrunedIsland.outdoor[1].image }
                          ELSE { }))
    /\ UNCHANGED << loadedChunks, pendingChunks, isGeneratingChunk,
                    lowPolyIslands, chunkUpdateCounter, islandData,
                    generatedChunks, scene, storage, timers, playerChunk,
                    disposed, tickCount, faultCount, thrownAt, appendLog,
                    genLog, generator >>

\* the segment counts of a constructor for a size group
SegmentsCall ==
    /\ \E shapeType \in 0 .. 4 : \E size \in 1 .. MaxSegSize :
         /\ fnArgs' = [ fn |-> "segments", shapeType |-> shapeType,
                        size |-> size ]
         /\ fnResult' = [ segments |-> RadialSegments(shapeType, size),
                          heightSegments |->
                              HeightSegments(shapeType, size) ]
    /\ UNCHANGED << loadedChunks, pendingChunks, isGeneratingChunk,
                    lowPolyIslands, chunkUpdateCounter, islandData,
                    generatedChunks, scene, storage, timers, playerChunk,
                    disposed, tickCount, faultCount, thrownAt, appendLog,
                    genLog, generator >>

\* chunks whose keys are prefixes of one another (1_1 of 1_10 and 1_12),
\* and one whose key is not
PlaceholderRegions == { << 1, 1 >>, << 1, 10 >>, << 1, 12 >>, << 2, 1 >> }

\* removePlaceholdersForChunk for a chunk that generateChunk has just
\* generated, in a session that holds the two placeholders of each chunk of
\* held.  Placeholders stay until their chunk is generated, wherever the
\* player goes, and the chunks of the queue are generated one per timer,
\* so a player who has sailed from chunk (1, 3) to chunk (1, 8) while a
\* timer was outstanding holds those of 1_1 (and of 2_1) and those of 1_10
PlaceholderCall ==
    /\ \E c \in PlaceholderRegions : \E held \in SUBSET PlaceholderRegions :
         /\ c \in held
         /\ LET ids == { PlaceholderId(ChunkKeyOf(h[1], h[2]), i) :
                          h \in held, i \in 0 .. 1 }
                s == removePlaceholdersForChunk(
                         [ Cur EXCEPT
                             !.lowPolyIslands = ids,
                             !.scene = SceneAdd(@, { PlaceholderObj(p) :
                                                       p \in ids }) ],
                         ChunkKeyOf(c[1], c[2]))
            IN /\ fnArgs' = [ fn |-> "removePlaceholdersForChunk",
                              chunk |-> c, held |-> held ]
               /\ fnResult' = [ lowPolyIslands |-> s.lowPolyIslands,
                                scene |-> s.scene ]
    /\ UNCHANGED << loadedChunks, pendingChunks, isGeneratingChunk,
                    lowPolyIslands, chunkUpdateCounter, islandData,
                    generatedChunks, scene, storage, timers, playerChunk,
                    disposed, tickCount, faultCount, thrownAt, appendLog,
                    genLog, generator >>

\* calls of the pure functions of the program, on a fresh session
NextFn ==
    \/ HashCall \/ GenerateCall \/ LoadCall \/ PruneCall \/ SegmentsCall
    \/ PlaceholderCall

SpecFn == InitFrom({ EmptyStore.storage }) /\ [][NextFn]_vars

NextLive == TickOn \/ TimerFire

\* among the steps of NextLive, the frames are the ones that change
\* chunkUpdateCounter (lines 127-131) and the callbacks the ones that
\* lengthen genLog

\* weak fairness of the frames, WF_vars(TickOn): requestAnimationFrame keeps
\* calling animate. A frame can be taken in every state, so the fairness
\* condition says that frames are taken again and again
FairFrames == []<><<chunkUpdateCounter' # chunkUpdateCounter>>_vars

\* weak fairness of the timers, WF_vars(TimerFire): a callback handed to
\* setTimeout is run. A callback can run exactly when a timer is
\* outstanding, so the fairness condition says that again and again no
\* timer is outstanding or a callback runs
FairTimers ==
    []<>(timers = << >>) \/ []<><<Len(genLog') > Len(genLog)>>_vars

\* a session on a saved world whose frames keep coming and whose timers
\* fire
SpecLive ==
    /\ InitFrom({ PriorStorage(Len(PriorQueue) - LiveLeft) })
    /\ [][NextLive]_vars /\ FairFrames /\ FairTimers

\* the same fairness for a session on a saved world whose player stays in
\* chunk (0,0)
SpecStay ==
    /\ InitFrom({ PriorStorage(Len(OriginQueue) - StayLeft) })
    /\ [][NextStay]_vars /\ FairFrames /\ FairTimers

(* ------------------------------------------------------------------ *)
(* Properties                                                          *)
(* ------------------------------------------------------------------ *)
\* C1: a key that is in DataManager.generatedChunks stays there: no tick,
\* deferred callback, unload, prune or dispose removes a key from the set
C1_GeneratedOnlyGrows == [][generatedChunks \subseteq generatedChunks']_vars

\* chunks were generated, loaded by a tick, and the manager was disposed
C1_Witness ==
    /\ disposed
    /\ tickCount > 0
    /\ genLog # << >>
    /\ generatedChunks # { }

\* C2: at most one deferred generation is outstanding at any time
C2_OneOutstanding == Len(timers) <= 1

\* a tick ran while a generation was outstanding: the key of the timer was
\* queued again by it
C2_Witness ==
    /\ Len(timers) = 1
    /\ isGeneratingChunk
    /\ includes(pendingChunks, timers[1].chunkKey)

\* the chunk coordinates a run can touch: the low-detail squares around the
\* positions of the player
World ==
    { << x, z >> : x \in (0 - lowDetailDistance) .. (MaxMove + lowDetailDistance),
                   z \in (0 - lowDetailDistance) .. lowDetailDistance }

\* C3: running generateChunk for a key that is in generatedChunks is a no-op,
\* whatever the detail level and the save draw: the records, the generated
\* set, the placeholders and everything else stay as they are
C3_RegenerateIsNoOp ==
    \A c \in World :
        ChunkKeyOf(c[1], c[2]) \in generatedChunks =>
            \A highDetail \in BOOLEAN, doSave \in BOOLEAN :
                generateChunk(Cur, c[1], c[2], highDetail, doSave) = Cur

\* the callback of a key ran a second time, when the key was generated
\* already
C3_Witness ==
    \E i \in DOMAIN genLog : \E j \in DOMAIN genLog :
        /\ i < j
        /\ genLog[i] = genLog[j]
        /\ genLog[i] \in generatedChunks

\* the keys of the deferred generations that are outstanding
InFlight == { timers[i].chunkKey : i \in DOMAIN timers }

\* C4: a key moves only forward along Unknown -> Queued -> Generating ->
\* Generated: no key of the pending queue is generating or generated, and no
\* key is dequeued for generation twice
C4_ForwardOnly ==
    /\ \A i \in DOMAIN pendingChunks :
          /\ pendingChunks[i] \notin InFlight
          /\ pendingChunks[i] \notin generatedChunks
    /\ \A i \in DOMAIN genLog : \A j \in DOMAIN genLog :
          genLog[i] = genLog[j] => i = j

\* the keys one tick appended to the queue
Appended == SubSeq(appendLog', Len(appendLog) + 1, Len(appendLog'))

\* C5: one tick takes at most the head off the pending queue (the queue it
\* leaves is the old queue with the keys it appended, whole or without its
\* head), takes nothing off while the busy flag is set, and adds no key to the
\* generated set and no record
C5_TickDrainsAtMostOne ==
    [][ tickCount' # tickCount =>
          /\ \/ pendingChunks' = pendingChunks \o Appended
             \/ /\ ~isGeneratingChunk
                /\ pendingChunks \o Appended # << >>
                /\ pendingChunks' = Tail(pendingChunks \o Appended)
          /\ generatedChunks' = generatedChunks
          /\ DOMAIN islandData' = DOMAIN islandData ]_vars

\* the first tick handed a key to a timer, and a later tick ran while that
\* timer was outstanding, with keys waiting in the queue
C5_Witness ==
    /\ tickCount >= 2
    /\ genLog = << >>
    /\ Len(timers) = 1
    /\ isGeneratingChunk
    /\ pendingChunks # << >>

\* C6: the deferred generations run in the order in which their keys were
\* appended to the pending queue
C6_Fifo ==
    /\ Len(genLog) <= Len(appendLog)
    /\ genLog = SubSeq(appendLog, 1, Len(genLog))

\* two different keys were generated one after the other
C6_Witness ==
    /\ Len(genLog) >= 2
    /\ genLog[1] # genLog[2]
    /\ genLog[2] \in generatedChunks

\* C10: when a tick returns, every generated chunk of the high-detail square
\* around the player's chunk is loaded
C10_HighSetLoaded ==
    [][ tickCount' # tickCount =>
          (HighSet(playerChunk'[1], playerChunk'[2]) \cap generatedChunks')
              \subseteq loadedChunks' ]_vars

\* a tick found generated chunks in its high-detail square and loaded them
\* itself: no callback has run yet
C10_Witness ==
    /\ tickCount >= 1
    /\ genLog = << >>
    /\ HighSet(playerChunk[1], playerChunk[2]) \cap generatedChunks # { }
    /\ HighSet(playerChunk[1], playerChunk[2]) \subseteq loadedChunks

\* the records stored for chunk key, as they are saved
RecordsOf(data, key) ==
    { SemanticFields(data[id]) : id \in { d \in DOMAIN data :
                                          data[d].chunk = key } }

StoredRecords(key) == RecordsOf(islandData, key)

\* the records generateChunk(chunkX, chunkZ, highDetail) creates, as they
\* are saved
CreatedRecords(chunkX, chunkZ, highDetail) ==
    { SemanticFields(r) :
        r \in Range(ChunkRecords(chunkX, chunkZ, highDetail)) }

\* C9: the records of a generated region are a function of its key alone:
\* wherever the player went, they are the records that a session whose
\* player stays at the origin creates for that key
C9_RecordsOfKeyAlone ==
    \A c \in Range(OriginQueue) :
        ChunkKeyOf(c[1], c[2]) \in generatedChunks =>
            StoredRecords(ChunkKeyOf(c[1], c[2]))
                = CreatedRecords(c[1], c[2], PriorHighDetail(c))

\* the two detail levels give chunk (-1, 0) different records, and a run
\* has stored those of the low detail level for it, while a session at the
\* origin stores those of the high one
C9_Diverges ==
    /\ ChunkKeyOf(-1, 0) \in generatedChunks
    /\ PriorHighDetail(<< -1, 0 >>)
    /\ StoredRecords(ChunkKeyOf(-1, 0)) = CreatedRecords(-1, 0, FALSE)
    /\ CreatedRecords(-1, 0, FALSE) # CreatedRecords(-1, 0, TRUE)

\* C8: when the deferred generation of a region throws, the callback still
\* ends with the busy flag cleared and the queue as it was; the region is
\* not marked generated when the exception came out of the island loop, and
\* is marked only with all its records stored; a set busy flag always has
\* its timer, and the next tick after an exception hands the head of a
\* non-empty queue to a timer
C8_ThrowRecovered ==
    /\ [](isGeneratingChunk => timers # << >>)
    /\ [][faultCount' # faultCount =>
            /\ ~isGeneratingChunk'
            /\ pendingChunks' = pendingChunks
            /\ Len(timers') = Len(timers) - 1
            /\ generatedChunks' \subseteq
                  generatedChunks \cup { genLog'[Len(genLog')] }
            /\ thrownAt' = "islands" =>
                  genLog'[Len(genLog')] \notin generatedChunks'
            /\ genLog'[Len(genLog')] \in generatedChunks' =>
                  \E i \in DOMAIN timers :
                     /\ timers[i].chunkKey = genLog'[Len(genLog')]
                     /\ RecordsOf(islandData', timers[i].chunkKey) =
                          CreatedRecords(timers[i].chunkX, timers[i].chunkZ,
                                         timers[i].distanceToPlayer
                                           <= highDetailDistance)]_vars
    /\ [][(/\ tickCount' # tickCount
            /\ faultCount > 0
            /\ ~isGeneratingChunk
            /\ pendingChunks # << >>) =>
             /\ isGeneratingChunk'
             /\ timers' # << >>
             /\ timers'[Len(timers')].chunkKey = Head(pendingChunks)]_vars

\* the generation of a region threw in the island loop, the region is still
\* not generated, and a callback that ran after it generated another region
C8_Witness ==
    /\ thrownAt = "islands"
    /\ ~isGeneratingChunk
    /\ \E j \in DOMAIN genLog :
         /\ genLog[j] \notin generatedChunks
         /\ \E k \in DOMAIN genLog : k > j /\ genLog[k] \in generatedChunks

\* C8 as stated: a region whose deferred generation throws is not marked
\* generated
C8_ThrowNeverMarks ==
    [][faultCount' # faultCount =>
         genLog'[Len(genLog')] \notin generatedChunks']_vars

\* C7: every key that was appended to the pending queue is eventually in
\* generatedChunks, when frames keep coming and timers fire: at any time,
\* there is a later time at which all the keys appended so far are generated
C7_EventuallyGenerated ==
    []<>(\A i \in DOMAIN appendLog : appendLog[i] \in generatedChunks)

\* the last callback generated a chunk that is outside the low-detail square
\* of the player: nothing cancelled it when the player moved away
C7_Witness ==
    /\ genLog # << >>
    /\ genLog[Len(genLog)] \in generatedChunks
    /\ genLog[Len(genLog)] \notin LowSet(playerChunk[1], playerChunk[2])

\* C11: when a tick returns, every loaded chunk is in the low-detail square
\* of the position the tick was given, and so is the chunk of every island
\* that has a mesh or an object in the scene
C11_FarUnloaded ==
    [][tickCount' # tickCount =>
         /\ loadedChunks' \subseteq LowSet(playerChunk'[1], playerChunk'[2])
         /\ \A id \in DOMAIN islandData' :
              (islandData'[id].mesh \/ BagIn(IslandObj(id), scene')) =>
                islandData'[id].chunk
                  \in LowSet(playerChunk'[1], playerChunk'[2])]_vars

\* the walk left chunk (-1,-1) behind: it was loaded, a chunk of the
\* high-detail square of the origin that the saved world holds, and now it
\* is not, while the chunks around the player are
C11_Witness ==
    /\ playerChunk = << MaxWalk, MaxWalk >>
    /\ storage = PriorStorage(Len(OriginQueue) - 1)
    /\ ChunkKeyOf(-1, -1) \in generatedChunks \ loadedChunks
    /\ IslandsOfChunk(Cur, ChunkKeyOf(-1, -1)) # { }
    /\ \A id \in IslandsOfChunk(Cur, ChunkKeyOf(-1, -1)) :
         ~BagIn(IslandObj(id), scene)
    /\ ChunkKeyOf(MaxWalk - 1, MaxWalk - 1) \in loadedChunks

\* C12: every loaded chunk is a generated chunk, whether a tick or a
\* deferred callback loaded it
C12_LoadedAreGenerated == loadedChunks \subseteq generatedChunks

\* chunk (-1,-1) was generated far from the player and loaded by a later
\* tick; the last callback generated a chunk next to the player and loaded
\* it itself: the queue is not empty and the busy flag is clear, so no tick
\* ran since
C12_Witness ==
    /\ storage = EmptyStore.storage
    /\ ChunkKeyOf(-1, -1) \in loadedChunks
    /\ genLog # << >>
    /\ genLog[Len(genLog)] \in loadedChunks
    /\ genLog[Len(genLog)] # ChunkKeyOf(-1, -1)
    /\ ~isGeneratingChunk
    /\ pendingChunks # << >>

\* the placeholder ids createPlaceholdersForChunk can give to chunk key
PlaceholderIdsOf(key) == { PlaceholderId(key, i) : i \in 0 .. 2 }

\* C13: no placeholder exists for a generated chunk, in lowPolyIslands or
\* in the scene (so none for a loaded chunk), and every placeholder object
\* of the scene is one of lowPolyIslands
C13_NoPlaceholderOfGenerated ==
    /\ \A key \in generatedChunks \cup loadedChunks :
         \A p \in PlaceholderIdsOf(key) :
            p \notin lowPolyIslands /\ ~BagIn(PlaceholderObj(p), scene)
    /\ \A o \in BagToSet(scene) :
         o[1] = "placeholder" => o[2] \in lowPolyIslands

\* chunk (-1,-1) was queued a second time by the tick at (1,0), so it was
\* not generated then and that tick gave it placeholders, as it gave them
\* to chunk (-1,0); its callback generated it and took them away
C13_Witness ==
    /\ playerChunk = << 1, 0 >>
    /\ tickCount = 2
    /\ ChunkKeyOf(-1, -1) \in generatedChunks
    /\ Cardinality({ i \in DOMAIN appendLog :
                       appendLog[i] = ChunkKeyOf(-1, -1) }) = 2
    /\ PlaceholderId(ChunkKeyOf(-1, 0), 0) \in lowPolyIslands
    /\ PlaceholderIdsOf(ChunkKeyOf(-1, -1)) \cap lowPolyIslands = { }

\* C14: a chunk is generated with the full parameter set exactly when it was
\* in the high-detail square of the player as it was dequeued: the timer a
\* tick schedules asks for high detail exactly for the chunks of that
\* square, and the callback of a chunk that is not generated yet stores the
\* records of the detail level its timer asks for
C14_HighSetFullDetail ==
    [][/\ Len(timers') > Len(timers) =>
            (InHighSquare(<< timers'[Len(timers')].chunkX - playerChunk'[1],
                             timers'[Len(timers')].chunkZ - playerChunk'[2] >>)
               <=> timers'[Len(timers')].distanceToPlayer
                     <= highDetailDistance)
       /\ (/\ Len(genLog') > Len(genLog)
           /\ genLog'[Len(genLog')] \notin generatedChunks) =>
            \E i \in DOMAIN timers :
               /\ timers[i].chunkKey = genLog'[Len(genLog')]
               /\ RecordsOf(islandData', timers[i].chunkKey) =
                    CreatedRecords(timers[i].chunkX, timers[i].chunkZ,
                                   timers[i].distanceToPlayer
                                     <= highDetailDistance)]_vars

\* chunk (-1,-1), a corner of the high-detail square of the origin, was
\* dequeued and generated with the player at the origin, and holds the
\* records of the cheaper parameter set, which are not those of the full one
C14_CornerCheap ==
    /\ storage = EmptyStore.storage
    /\ tickCount = 1
    /\ playerChunk = << 0, 0 >>
    /\ ChunkKeyOf(-1, -1) \in generatedChunks
    /\ StoredRecords(ChunkKeyOf(-1, -1)) = CreatedRecords(-1, -1, FALSE)
    /\ CreatedRecords(-1, -1, FALSE) # CreatedRecords(-1, -1, TRUE)

\* C15: a tick appends each chunk of the low-detail square that is neither
\* generated nor queued, once, and nothing else; when it returns every
\* ungenerated chunk of the square is queued or is the chunk of the
\* outstanding timer; the queue never holds a key twice
C15_EnqueueRule ==
    /\ [](\A i \in DOMAIN pendingChunks : \A j \in DOMAIN pendingChunks :
             pendingChunks[i] = pendingChunks[j] => i = j)
    /\ [][tickCount' # tickCount =>
            /\ Range(Appended) =
                  (LowSet(playerChunk'[1], playerChunk'[2])
                     \ generatedChunks) \ Range(pendingChunks)
            /\ Cardinality(Range(Appended)) = Len(Appended)
            /\ (LowSet(playerChunk'[1], playerChunk'[2]) \ generatedChunks')
                  \subseteq Range(pendingChunks')
                              \cup { timers'[i].chunkKey :
                                       i \in DOMAIN timers' }]_vars

\* two ticks from the empty store, the second one at (1,0): the queue holds
\* the column x = 3 that the second tick appended behind the keys of the
\* first, and chunk (0,0) that was queued before was not appended again
C15_Witness ==
    /\ storage = EmptyStore.storage
    /\ tickCount = 2
    /\ playerChunk = << 1, 0 >>
    /\ pendingChunks # << >>
    /\ pendingChunks[Len(pendingChunks)]
         = ChunkKeyOf(1 + lowDetailDistance, lowDetailDistance)
    /\ Cardinality({ i \in DOMAIN appendLog :
                       appendLog[i] = ChunkKeyOf(0, 0) }) = 1

\* everything in view is there: the low-detail square is generated, the
\* high-detail square is loaded, nothing is queued and no placeholder is left
Settled ==
    /\ LowSet(playerChunk[1], playerChunk[2]) \subseteq generatedChunks
    /\ HighSet(playerChunk[1], playerChunk[2]) \subseteq loadedChunks
    /\ pendingChunks = << >>
    /\ lowPolyIslands = { }
    /\ \A o \in BagToSet(scene) : o[1] # "placeholder"

\* C16: when the player stays in one chunk and frames and timers keep
\* running, the session eventually is settled, and stays so
C16_StaySettles == <>[]Settled

\* the session is settled, after callbacks ran for chunks that had
\* placeholders
C16_Witness ==
    /\ Settled
    /\ Len(genLog) >= StayLeft
    /\ tickCount > 0

RECURSIVE RollingHash(_)
\* the polynomial rolling hash over every character of str:
\* hash = hash * 31 + charCode, wrapped to a signed 32-bit integer after
\* each step
RollingHash(str) ==
    IF str = << >> THEN 0
    ELSE HashStep(RollingHash(SubSeq(str, 1, Len(str) - 1)), str[Len(str)])

\* C17: the hash of a seed string of any length is the rolling hash over
\* every character of it, in ChunkManager.simpleHash and in
\* IslandGenerator.hashCode (on the signed values, whose magnitudes the
\* functions return)
C17_HashOverEveryChar ==
    fnArgs # NoValue /\ fnArgs.fn = "hash" =>
        /\ fnResult.simpleHash = RollingHash(fnArgs.str)
        /\ fnResult.hashCode = RollingHash(fnArgs.str)

\* a seed string of more than 10 characters was hashed: simpleHash gives
\* the rolling hash of its first 10 characters, hashCode that of all
C17_Truncated ==
    /\ fnArgs # NoValue /\ fnArgs.fn = "hash"
    /\ Len(fnArgs.str) > HASH_MAX_CHARS
    /\ fnResult.simpleHash = RollingHash(SubSeq(fnArgs.str, 1, HASH_MAX_CHARS))
    /\ fnResult.simpleHash # RollingHash(fnArgs.str)
    /\ fnResult.hashCode = RollingHash(fnArgs.str)

\* C18: every record the island loop of generateChunk(chunkX, chunkZ)
\* creates carries the key of (chunkX, chunkZ) and lies in that chunk:
\* floor(pos.x / CHUNK_SIZE) = chunkX and floor(pos.z / CHUNK_SIZE) = chunkZ,
\* with either parameter set and for negative coordinates too
C18_RecordInItsChunk ==
    fnArgs # NoValue /\ fnArgs.fn = "generateChunk" =>
        \A i \in DOMAIN fnResult :
            /\ fnResult[i].chunk = ChunkKeyOf(fnArgs.chunkX, fnArgs.chunkZ)
            /\ fnResult[i].pos.x \div (CHUNK_SIZE * Scale) = fnArgs.chunkX
            /\ fnResult[i].pos.z \div (CHUNK_SIZE * Scale) = fnArgs.chunkZ

\* a chunk of negative coordinates was generated with the cheaper parameter
\* set, and has islands
C18_Witness ==
    /\ fnArgs # NoValue /\ fnArgs.fn = "generateChunk"
    /\ fnArgs.chunkX < 0 /\ fnArgs.chunkZ < 0 /\ fnArgs.chunkX # fnArgs.chunkZ
    /\ ~fnArgs.highDetail
    /\ Len(fnResult) >= 2

\* C19: ids are unique for the lifetime of a save, also after a load that
\* reset one of the two collections: a callback that generates a chunk
\* writes no id that the store holds already, and the records of a
\* generated chunk are those of one generation
C19_IdsNeverRewritten ==
    /\ [][(/\ Len(genLog') > Len(genLog)
            /\ genLog'[Len(genLog')] \notin generatedChunks) =>
             \E i \in DOMAIN timers :
                /\ timers[i].chunkKey = genLog'[Len(genLog')]
                /\ { r.id : r \in CreatedRecords(
                                     timers[i].chunkX, timers[i].chunkZ,
                                     timers[i].distanceToPlayer
                                       <= highDetailDistance) }
                     \cap DOMAIN islandData = { }]_vars
    /\ [](\A c \in Range(OriginQueue) :
            ChunkKeyOf(c[1], c[2]) \in generatedChunks =>
                \E highDetail \in BOOLEAN :
                   StoredRecords(ChunkKeyOf(c[1], c[2])) =
                       CreatedRecords(c[1], c[2], highDetail))

\* the islands were loaded, the generated set was reset, and chunk (-1,-1)
\* was generated again over its loaded records
C19_Regenerated ==
    /\ storage = ResetStorage
    /\ genLog = << ChunkKeyOf(-1, -1) >>
    /\ ChunkKeyOf(-1, -1) \in generatedChunks
    /\ IslandsOfChunk([ islandData |-> LoadedIslandData(ResetStorage) ],
                      ChunkKeyOf(-1, -1)) # { }

SavedList == IF storage.islandData = NoValue THEN { } ELSE storage.islandData[1]

\* C21: the landmass list a save wrote holds no runtime handle of any
\* record: no mesh, no label, and under the decoration no billboard object
C21_NoHandleSaved ==
    \A r \in SavedList :
        /\ DOMAIN r = { "id", "pos", "biome", "size", "name", "chunk",
                        "outdoor" }
        /\ r.outdoor # NoValue => r.outdoor[1].billboard = NoValue

\* an ad island is materialized, its record holds the billboard mesh, and
\* the list this session saved holds what the mesh serializes to under the
\* island's decoration
C21_BillboardSaved ==
    /\ genLog # << >>
    /\ \E id \in DOMAIN islandData :
         /\ islandData[id].mesh
         /\ islandData[id].outdoor # NoValue
         /\ islandData[id].outdoor[1].billboard = Some("THREE.Mesh")
         /\ \E r \in SavedList :
              /\ r.id = id
              /\ r.outdoor[1].billboard = Some("Object3D.toJSON")

\* the item is a list of landmass records
WellFormedIslands(item) ==
    /\ item[1].json = "array"
    /\ \A i \in DOMAIN item[1].elems :
         /\ item[1].elems[i].json = "object"
         /\ DOMAIN item[1].elems[i].fields =
              { "id", "pos", "biome", "size", "name", "chunk", "outdoor" }

\* the item is a list of chunk keys
WellFormedChunks(item) ==
    /\ item[1].json = "array"
    /\ \A i \in DOMAIN item[1].elems : item[1].elems[i].json = "string"

\* C22: when one of the two items is malformed and the other is not,
\* loadData does not throw, the collection of the malformed item is empty
\* and the other collection is what its own item holds
C22_MalformedResetsOne ==
    fnArgs # NoValue /\ fnArgs.fn = "loadData" =>
        /\ ~fnResult.threw
        /\ (~WellFormedIslands(fnArgs.islandItem)
               /\ WellFormedChunks(fnArgs.chunkItem)) =>
             /\ DOMAIN fnResult.islandData = { }
             /\ fnResult.generatedChunks =
                    { e.chars : e \in Range(fnArgs.chunkItem[1].elems) }
        /\ (WellFormedIslands(fnArgs.islandItem)
               /\ ~WellFormedChunks(fnArgs.chunkItem)) =>
             /\ fnResult.generatedChunks = { }
             /\ DOMAIN fnResult.islandData =
                    { e.fields.id : e \in Range(fnArgs.islandItem[1].elems) }
             /\ \A e \in Range(fnArgs.islandItem[1].elems) :
                    fnResult.islandData[e.fields.id] = Revive(e.fields)

\* the chunk item is a JSON string, not a list: new Set iterates the
\* string and the generated set holds its characters, while the islands
\* are loaded from their list
C22_StringAsChunks ==
    /\ fnArgs # NoValue /\ fnArgs.fn = "loadData"
    /\ WellFormedIslands(fnArgs.islandItem)
    /\ fnArgs.chunkItem = Some(JString(ChunkKeyOf(0, 0)))
    /\ ~fnResult.threw
    /\ fnResult.generatedChunks = { << Ch.zero >>, << Ch.underscore >> }
    /\ DOMAIN fnResult.islandData # { }

\* C23: a record whose biome is not in the biome table never gets a mesh
\* or an object in the scene, and it stays in the store as it was; the
\* records of known biomes in the same loaded chunk are materialized
C23_UnknownBiomeSkipped ==
    [][/\ \A id \in DOMAIN islandData :
            ~KnownBiome(islandData[id].biome) =>
                /\ id \in DOMAIN islandData'
                /\ islandData'[id] = islandData[id]
                /\ ~islandData'[id].mesh
                /\ ~BagIn(IslandObj(id), scene')
       /\ \A id \in DOMAIN islandData' :
            (/\ islandData'[id].chunk \in loadedChunks'
             /\ KnownBiome(islandData'[id].biome)) =>
                /\ islandData'[id].mesh
                /\ BagIn(IslandObj(id), scene')]_vars

\* a loaded chunk holds a record of an unknown biome, which has no mesh,
\* next to a record of a known biome, which has one
C23_Witness ==
    \E id \in DOMAIN islandData : \E other \in DOMAIN islandData :
        /\ islandData[id].chunk \in loadedChunks
        /\ ~KnownBiome(islandData[id].biome)
        /\ ~islandData[id].mesh
        /\ other # id
        /\ islandData[other].chunk = islandData[id].chunk
        /\ islandData[other].mesh
        /\ BagIn(IslandObj(other), scene)

\* the objects the three stores of a generator hold
CacheEntries(g) ==
    Values(g.geometryCache) \cup Values(g.billboardGeometryCache)
        \cup Values(g.textureCache)

\* the geometries of the group of a materialized island
GroupGeometries(grp) ==
    { grp.terrain } \cup (IF grp.billboard = NoValue THEN { }
                          ELSE { grp.billboard[1] })

\* C24: a step that unloads landmasses disposes no object that is still an
\* entry of a store or still part of a materialized landmass
C24_UnloadSparesCaches ==
    [][(/\ DOMAIN generator'.groups # DOMAIN generator.groups
        /\ DOMAIN generator'.groups \subseteq DOMAIN generator.groups) =>
           \A h \in generator'.disposed \ generator.disposed :
               /\ h \notin CacheEntries(generator')
               /\ \A id \in DOMAIN generator'.groups :
                      h \notin GroupGeometries(generator'.groups[id])]_vars

\* the game is running, and the billboard geometry store holds a plane
\* that the unload of an ad island disposed
C24_CachedPlaneDisposed ==
    /\ ~disposed
    /\ \E key \in DOMAIN generator.billboardGeometryCache :
         generator.billboardGeometryCache[key] \in generator.disposed

\* C25: the terrain geometry of a materialized landmass is no entry of the
\* geometry store and no geometry of another landmass, and unless it is
\* the fallback cone it holds what the store's entry for the landmass's
\* content key holds
C25_PrivateCopies ==
    \A id \in DOMAIN generator.groups :
        LET h == generator.groups[id].terrain
            key == CacheKey(islandData[id])
        IN /\ h \notin Values(generator.geometryCache)
           /\ \A other \in DOMAIN generator.groups \ { id } :
                  generator.groups[other].terrain # h
           /\ generator.content[h].kind = "terrain" =>
                  /\ key \in DOMAIN generator.geometryCache
                  /\ generator.content[generator.geometryCache[key]]
                         = generator.content[h]

\* two landmasses of one content key are materialized, the first by a
\* miss and the second by a hit: each has a geometry of its own, and both
\* hold what the store's entry holds
C25_Witness ==
    \E id \in DOMAIN generator.groups :
      \E other \in DOMAIN generator.groups \ { id } :
        /\ CacheKey(islandData[id]) = CacheKey(islandData[other])
        /\ generator.groups[id].terrain < generator.groups[other].terrain
        /\ generator.geometryCache[CacheKey(islandData[id])]
               = generator.groups[id].terrain + 1
        /\ generator.content[generator.groups[id].terrain]
               = generator.content[generator.groups[other].terrain]
        /\ generator.content[generator.groups[id].terrain].kind = "terrain"

\* C26: the entry of an image in the texture store is never replaced by
\* another texture while the image stays in the store, and no image is
\* being fetched twice at a time
C26_TextureFetchedOnce ==
    [][/\ \A url \in DOMAIN generator.textureCache
                      \cap DOMAIN generator'.textureCache :
            generator'.textureCache[url] = generator.textureCache[url]
       /\ \A l1 \in generator'.loads : \A l2 \in generator'.loads :
            l1.url = l2.url => l1 = l2]_vars

\* two ad islands of one image are materialized, each started a fetch, and
\* the texture of the second fetch replaced that of the first in the store
C26_FetchedTwice ==
    \E id \in DOMAIN generator.groups :
      \E other \in DOMAIN generator.groups \ { id } :
        /\ islandData[id].outdoor # NoValue
        /\ islandData[other].outdoor # NoValue
        /\ islandData[id].outdoor[1].image = islandData[other].outdoor[1].image
        /\ generator.fetched = 2
        /\ generator.loads = { }
        /\ \E h \in DOMAIN generator.content :
             /\ generator.content[h].kind = "texture"
             /\ generator.content[h].url = islandData[id].outdoor[1].image
             /\ h < generator.textureCache[islandData[id].outdoor[1].image]

\* C27 as stated: after a prune each store is within its ceiling
C27_AllWithinCeilings ==
    fnArgs # NoValue /\ fnArgs.fn = "clearUnusedCaches" =>
        /\ Cardinality(DOMAIN fnResult.geometryCache) <= GEOMETRY_CACHE_MAX
        /\ Cardinality(DOMAIN fnResult.billboardGeometryCache)
               <= BILLBOARD_CACHE_MAX
        /\ Cardinality(DOMAIN fnResult.textureCache) <= TEXTURE_CACHE_MAX

\* C27, amended: after a prune the terrain and the billboard geometry
\* store are within their ceilings, a store that was over its ceiling
\* being empty; a texture store that was over its ceiling holds the
\* entries the random draws kept, which can be any number of them, and one
\* within its ceiling is as it was
C27_GeometryWithinCeilings ==
    fnArgs # NoValue /\ fnArgs.fn = "clearUnusedCaches" =>
        /\ Cardinality(DOMAIN fnResult.geometryCache) <= GEOMETRY_CACHE_MAX
        /\ fnArgs.geometry > GEOMETRY_CACHE_MAX
               => DOMAIN fnResult.geometryCache = { }
        /\ Cardinality(DOMAIN fnResult.billboardGeometryCache)
               <= BILLBOARD_CACHE_MAX
        /\ fnArgs.billboard > BILLBOARD_CACHE_MAX
               => DOMAIN fnResult.billboardGeometryCache = { }
        /\ Cardinality(DOMAIN fnResult.textureCache) =
               IF fnArgs.textures > TEXTURE_CACHE_MAX
               THEN fnArgs.kept ELSE fnArgs.textures
        /\ \A h \in fnResult.disposed : h \notin CacheEntries(fnResult)

\* a prune of three stores over their ceilings emptied the two geometry
\* stores and kept every texture
C27_Witness ==
    /\ fnArgs # NoValue /\ fnArgs.fn = "clearUnusedCaches"
    /\ fnArgs.geometry > GEOMETRY_CACHE_MAX
    /\ fnArgs.billboard > BILLBOARD_CACHE_MAX
    /\ fnArgs.textures > TEXTURE_CACHE_MAX
    /\ fnArgs.kept = fnArgs.textures
    /\ DOMAIN fnResult.geometryCache = { }
    /\ DOMAIN fnResult.billboardGeometryCache = { }
    /\ Cardinality(DOMAIN fnResult.textureCache) > TEXTURE_CACHE_MAX

\* C28: the terrain geometry of a materialized landmass is the geometry
\* its archetype builds for its own size group with the random seeded by
\* its own id, whatever was materialized before it
C28_OwnSeed ==
    \A id \in DOMAIN generator.groups :
        generator.content[generator.groups[id].terrain].kind = "terrain" =>
            generator.content[generator.groups[id].terrain] =
                TerrainGeometry(CacheKey(islandData[id])[2],
                                CacheKey(islandData[id])[3], id)

\* two volcano islands of one content key are materialized; the one
\* materialized later has the geometry built with the seed of the other,
\* which differs from the geometry of its own seed
C28_ForeignSeed ==
    \E id \in DOMAIN generator.groups :
      \E other \in DOMAIN generator.groups \ { id } :
        LET key == CacheKey(islandData[id])
        IN /\ key = CacheKey(islandData[other])
           /\ generator.content[generator.groups[id].terrain] =
                  TerrainGeometry(key[2], key[3], other)
           /\ TerrainGeometry(key[2], key[3], other)
                  # TerrainGeometry(key[2], key[3], id)

\* the caps of the segment counts in createJaggedMountain and createVolcano
SEGMENT_CAP == 8
HEIGHT_SEGMENT_CAP == 4

\* C29: whatever the size, no archetype passes more than SEGMENT_CAP
\* radial or more than HEIGHT_SEGMENT_CAP height segments to its base
\* primitive
C29_SegmentsCapped ==
    fnArgs # NoValue /\ fnArgs.fn = "segments" =>
        /\ fnResult.segments <= SEGMENT_CAP
        /\ fnResult.heightSegments <= HEIGHT_SEGMENT_CAP

\* a mesa of a size group above the cap has as many radial segments as its
\* size
C29_GrowsWithSize ==
    /\ fnArgs # NoValue /\ fnArgs.fn = "segments"
    /\ fnArgs.shapeType = 2
    /\ fnArgs.size > SEGMENT_CAP
    /\ fnResult.segments = fnArgs.size

\* C30: a loadChunk in which the build of one landmass goes wrong ends
\* normally: a landmass whose geometry is invalid is in the scene with the
\* fallback cone, a landmass whose build throws has no mesh, and every
\* other landmass of the chunk is materialized
C30_FaultContained ==
    [][(/\ loadedChunks' # loadedChunks
        /\ loadedChunks \subseteq loadedChunks') =>
           /\ ~generator'.thrown
           /\ \A id \in DOMAIN islandData' :
                (/\ islandData'[id].chunk \in loadedChunks' \ loadedChunks
                 /\ KnownBiome(islandData'[id].biome)) =>
                    IF /\ generator'.lastFault.id = Some(id)
                       /\ generator'.lastFault.kind = "throws"
                    THEN /\ id \notin DOMAIN generator'.groups
                         /\ ~islandData'[id].mesh
                         /\ ~BagIn(IslandObj(id), scene')
                    ELSE /\ id \in DOMAIN generator'.groups
                         /\ islandData'[id].mesh
                         /\ BagIn(IslandObj(id), scene')
                         /\ (generator'.lastFault.id = Some(id)) =>
                               generator'.content[
                                   generator'.groups[id].terrain].kind
                                 = "fallback"]_vars

\* a chunk was loaded while the build of its first landmass threw and the
\* others were materialized, and a landmass of a chunk loaded before is in
\* the scene with the fallback cone
C30_Witness ==
    /\ generator.lastFault.kind = "throws"
    /\ \E id \in DOMAIN islandData : \E other \in DOMAIN generator.groups :
         /\ generator.lastFault.id = Some(id)
         /\ id \notin DOMAIN generator.groups
         /\ islandData[id].chunk \in loadedChunks
         /\ islandData[other].chunk = islandData[id].chunk
         /\ BagIn(IslandObj(other), scene)
    /\ \E id \in DOMAIN generator.groups :
         /\ generator.content[generator.groups[id].terrain].kind = "fallback"
         /\ BagIn(IslandObj(id), scene)

\* the distance processNextPendingChunk computes between the chunk of a key
\* and the chunk p of the player
KeyDistance(key, p) ==
    LET parts == split(key, Ch.underscore)
    IN Abs(parseInt(parts[1]) - p[1]) + Abs(parseInt(parts[2]) - p[2])

C33_LoadedInViewAlways ==
    loadedChunks \subseteq LowSet(playerChunk[1], playerChunk[2])

\* the callback that ran last loaded its chunk, which is outside the
\* low-detail square of the position of the most recent tick
C33_StaleLoad ==
    /\ genLog # << >>
    /\ genLog[Len(genLog)] \in loadedChunks
    /\ genLog[Len(genLog)] \notin LowSet(playerChunk[1], playerChunk[2])

\* C34: once dispose() has returned, loadedChunks and lowPolyIslands stay
\* empty and no island has a mesh or an object in the scene, whatever
\* timer fires afterwards
C34_DisposedStaysEmpty ==
    disposed =>
      /\ loadedChunks = { }
      /\ lowPolyIslands = { }
      /\ \A id \in DOMAIN islandData :
            ~islandData[id].mesh /\ ~BagIn(IslandObj(id), scene)

\* after dispose() the callback of an outstanding timer ran and loaded its
\* chunk: its islands are in the scene of the disposed game
C34_LoadedAfterDispose ==
    /\ disposed
    /\ timers = << >>
    /\ genLog # << >>
    /\ genLog[Len(genLog)] \in loadedChunks
    /\ \E id \in DOMAIN islandData :
         /\ islandData[id].chunk = genLog[Len(genLog)]
         /\ islandData[id].mesh
         /\ BagIn(IslandObj(id), scene)

\* C35: generating a chunk removes the placeholders that were created for
\* it and no others: those of every other chunk held stay in lowPolyIslands
\* and in the scene
C35_RemovesOwnOnly ==
    fnArgs # NoValue /\ fnArgs.fn = "removePlaceholdersForChunk" =>
        LET own == { PlaceholderId(ChunkKeyOf(fnArgs.chunk[1],
                                              fnArgs.chunk[2]), i) :
                       i \in 0 .. 1 }
            others == { PlaceholderId(ChunkKeyOf(h[1], h[2]), i) :
                          h \in fnArgs.held \ { fnArgs.chunk },
                          i \in 0 .. 1 }
        IN /\ fnResult.lowPolyIslands = others
           /\ \A p \in others : BagIn(PlaceholderObj(p), fnResult.scene)
           /\ \A p \in own : ~BagIn(PlaceholderObj(p), fnResult.scene)

\* chunk 1_1 was generated and the placeholders of chunk 1_10, which is not
\* generated, are gone with its own
C35_NeighbourRemoved ==
    /\ fnArgs # NoValue /\ fnArgs.fn = "removePlaceholdersForChunk"
    /\ fnArgs.chunk = << 1, 1 >>
    /\ << 1, 10 >> \in fnArgs.held
    /\ PlaceholderId(ChunkKeyOf(1, 10), 0) \notin fnResult.lowPolyIslands
    /\ ~BagIn(PlaceholderObj(PlaceholderId(ChunkKeyOf(1, 10), 0)),
              fnResult.scene)
    /\ PlaceholderId(ChunkKeyOf(2, 1), 0) \in fnResult.lowPolyIslands
           <=> << 2, 1 >> \in fnArgs.held

\* C38: when a tick returns, every placeholder that lowPolyIslands holds,
\* and every placeholder object in the scene, belongs to a chunk of the
\* low-detail square of the position the tick was given
C38_PlaceholdersInView ==
    [][ tickCount' # tickCount =>
          \A p \in lowPolyIslands' \cup { o[2] : o \in
                      { q \in BagToSet(scene') : q[1] = "placeholder" } } :
             \E key \in LowSet(playerChunk'[1], playerChunk'[2]) :
                p \in PlaceholderIdsOf(key) ]_vars

\* two ticks have run, and the scene holds a placeholder of a chunk that
\* the first tick had in its low-detail ring and that is outside the
\* low-detail square of the second
C38_LeftBehind ==
    /\ tickCount >= 2
    /\ ~disposed
    /\ \E z \in (0 - lowDetailDistance) .. lowDetailDistance :
         LET key == ChunkKeyOf(0 - lowDetailDistance, z)
         IN /\ key \notin LowSet(playerChunk[1], playerChunk[2])
            /\ key \notin generatedChunks
            /\ \E p \in PlaceholderIdsOf(key) :
                  p \in lowPolyIslands /\ BagIn(PlaceholderObj(p), scene)


\* the characters of str that simpleHash's loop reads
HashedPart(str) == SubSeq(str, 1, Min(Len(str), HASH_MAX_CHARS))

\* the string the seed function of a region hashes for a draw with the given
\* salt: key + salt + min + max with the detailed function, key + salt with
\* the simple one
SeedInput(highDetail, key, min, max, salt) ==
    IF highDetail THEN key \o salt \o min.str \o max.str ELSE key \o salt

\* C39: for every region key and every two islands i # j of the region, the
\* position draws and the ad roll of island i are computed from a hash input
\* that differs from that of island j in the characters the hash reads
C39_InputsDiffer ==
    fnArgs # NoValue /\ fnArgs.fn = "generateChunk" =>
        LET key == ChunkKeyOf(fnArgs.chunkX, fnArgs.chunkZ)
            In(min, max, salt, i) ==
                HashedPart(SeedInput(fnArgs.highDetail, key, min, max,
                                     salt \o IntToStr(i)))
        IN \A i, j \in 0 .. Len(fnResult) - 1 :
               i # j =>
                   /\ In(Num(0), Num(CHUNK_SIZE), Lit.posX, i)
                          # In(Num(0), Num(CHUNK_SIZE), Lit.posX, j)
                   /\ In(Num(0), Num(CHUNK_SIZE), Lit.posZ, i)
                          # In(Num(0), Num(CHUNK_SIZE), Lit.posZ, j)
                   /\ In(Num(0), Num(1), Lit.adRoll, i)
                          # In(Num(0), Num(1), Lit.adRoll, j)

\* a region whose key has five characters was generated with several
\* islands, and all of them have the position of the first
C39_SamePosition ==
    /\ fnArgs # NoValue /\ fnArgs.fn = "generateChunk"
    /\ Len(ChunkKeyOf(fnArgs.chunkX, fnArgs.chunkZ)) >= 5
    /\ Len(fnResult) >= 2
    /\ \A i \in DOMAIN fnResult : fnResult[i].pos = fnResult[1].pos


\* the entries of the three stores of generator g
StoreEntries(g) ==
    { << "geometry", k, g.geometryCache[k] >> : k \in DOMAIN g.geometryCache }
      \cup { << "billboard", k, g.billboardGeometryCache[k] >> :
               k \in DOMAIN g.billboardGeometryCache }
      \cup { << "texture", k, g.textureCache[k] >> :
               k \in DOMAIN g.textureCache }

\* C31: a frame adds one to the counter, requests a prune exactly when the
\* counter then exceeds PRUNE_EVERY and in that case resets the counter to
\* 0, so that the counter is within 0 .. PRUNE_EVERY after every frame; a
\* step in which no prune is requested (a frame whose loads fetch from the
\* stores, hit or miss, or a texture callback) removes no entry of a store
C31_PruneByTickOnly ==
    [][ /\ chunkUpdateCounter' \in 0 .. PRUNE_EVERY
        /\ chunkUpdateCounter' # chunkUpdateCounter =>
             /\ chunkUpdateCounter' =
                  IF chunkUpdateCounter + 1 > PRUNE_EVERY THEN 0
                  ELSE chunkUpdateCounter + 1
             /\ generator'.pruneRequested
                  <=> chunkUpdateCounter + 1 > PRUNE_EVERY
        /\ chunkUpdateCounter' = chunkUpdateCounter =>
             generator'.pruneRequested = generator.pruneRequested
        /\ ~(chunkUpdateCounter + 1 > PRUNE_EVERY
               /\ chunkUpdateCounter' # chunkUpdateCounter) =>
             StoreEntries(generator) \subseteq StoreEntries(generator')
      ]_vars

\* the frame that followed PRUNE_EVERY others has requested a prune and
\* reset the counter, with the stores filled by the fetches of the first
\* frame
C31_Witness ==
    /\ chunkUpdateCounter = 0
    /\ generator.pruneRequested
    /\ DOMAIN generator.geometryCache # { }
    /\ DOMAIN generator.textureCache # { }


C37_UsedNotDisposed ==
    fnArgs # NoValue /\ fnArgs.fn = "clearUnusedCaches" =>
        \A id \in fnArgs.usedIslandIds \cap DOMAIN fnResult.groups :
            GroupGeometries(fnResult.groups[id]) \cap fnResult.disposed = { }

\* the billboard store was over its ceiling, and the plane on the billboard
\* of the materialized island in usedIslandIds is disposed
C37_UsedPlaneDisposed ==
    /\ fnArgs # NoValue /\ fnArgs.fn = "clearUnusedCaches"
    /\ fnArgs.billboard > BILLBOARD_CACHE_MAX
    /\ \E id \in fnArgs.usedIslandIds \cap DOMAIN fnResult.groups :
         /\ fnResult.groups[id].billboard # NoValue
         /\ fnResult.groups[id].billboard[1] \in fnResult.disposed
         /\ fnResult.content[fnResult.groups[id].billboard[1]].kind = "plane"

====
